---------------------------- MODULE Spec2Model ----------------------------
(***************************************************************************)
(* RBPak (src/RBPak/RBPak/src/pak.cpp): the package engine, its LRU cache, *)
(* the XOR cipher, the codec and the container file, as a state machine.   *)
(*                                                                         *)
(* Bytes are the integers 0..255 and a ByteArray is a sequence of them.    *)
(* A uint32_t is the pair <<hi, lo>> of its 16-bit halves, so that every   *)
(* 32-bit operation of the source (CRC-32, FNV-1a, MurmurHash3) keeps its  *)
(* width: all arithmetic on a pair is modulo 2^32.  Strings are sequences  *)
(* of character codes.                                                     *)
(***************************************************************************)
EXTENDS Integers, Sequences, FiniteSets, TLC

(***************************************************************************)
(* 32-bit arithmetic                                                       *)
(***************************************************************************)
RECURSIVE BitXor(_, _)
BitXor(a, b) ==
    IF a = 0 THEN b
    ELSE IF b = 0 THEN a
    ELSE (((a % 2) + (b % 2)) % 2) + 2 * BitXor(a \div 2, b \div 2)

RECURSIVE Pow2(_)
Pow2(n) == IF n = 0 THEN 1 ELSE 2 * Pow2(n - 1)

Half == 65536

Xor32(a, b) == <<BitXor(a[1], b[1]), BitXor(a[2], b[2])>>

\* a >> n, 0 < n < 32
Shr32(a, n) ==
    IF n >= 16 THEN <<0, a[1] \div Pow2(n - 16)>>
    ELSE <<a[1] \div Pow2(n), (a[2] \div Pow2(n)) + (a[1] % Pow2(n)) * Pow2(16 - n)>>

\* a << n, 0 < n < 32
Shl32(a, n) ==
    IF n >= 16 THEN <<(a[2] % Pow2(32 - n)) * Pow2(n - 16), 0>>
    ELSE <<((a[1] % Pow2(16 - n)) * Pow2(n)) + (a[2] \div Pow2(16 - n)),
           (a[2] % Pow2(16 - n)) * Pow2(n)>>

\* (a << n) | (a >> (32 - n)): the two operands have no bit in common
Rotl32(a, n) ==
    LET l == Shl32(a, n)
        r == Shr32(a, 32 - n)
    IN  <<l[1] + r[1], l[2] + r[2]>>

Add32(a, b) ==
    LET lo == a[2] + b[2]
    IN  <<(a[1] + b[1] + (lo \div Half)) % Half, lo % Half>>

\* x * y for x < 2^16, y < 2^16, as a pair, without leaving 31 bits
Mul16(x, y) ==
    LET t0 == (x % 256) * y
        t1 == (x \div 256) * y
        lo == t0 + (t1 % 256) * 256
    IN  <<((t1 \div 256) + (lo \div Half)) % Half, lo % Half>>

Mul32(a, b) ==
    LET ll == Mul16(a[2], b[2])
        cross == (Mul16(a[1], b[2])[2] + Mul16(a[2], b[1])[2]) % Half
    IN  <<(ll[1] + cross) % Half, ll[2]>>

\* std::to_string of a uint32_t, as character codes
RECURSIVE ToDecimal(_)
ToDecimal(a) ==
    LET qh == a[1] \div 10
        rest == (a[1] % 10) * Half + a[2]
        q == <<qh, rest \div 10>>
        d == rest % 10
    IN  IF q = <<0, 0>> THEN <<48 + d>> ELSE Append(ToDecimal(q), 48 + d)

(***************************************************************************)
(* zlib's crc32() and adler32()                                            *)
(***************************************************************************)
CrcPoly == <<60856, 33568>>            \* 0xEDB88320
AllOnes == <<65535, 65535>>            \* 0xFFFFFFFF

RECURSIVE CrcBits(_, _)
CrcBits(c, n) ==
    IF n = 0 THEN c
    ELSE CrcBits(IF c[2] % 2 = 1 THEN Xor32(Shr32(c, 1), CrcPoly) ELSE Shr32(c, 1), n - 1)

CrcTable == [n \in 0..255 |-> CrcBits(<<0, n>>, 8)]

RECURSIVE CrcUpdate(_, _, _)
CrcUpdate(c, data, i) ==
    IF i > Len(data) THEN c
    ELSE CrcUpdate(Xor32(Shr32(c, 8), CrcTable[BitXor(c[2] % 256, data[i])]), data, i + 1)

CalculateCRC32(data) == Xor32(CrcUpdate(AllOnes, data, 1), AllOnes)

\* volatile diff = a ^ b; return diff == 0
SecureCompare(a, b) == Xor32(a, b) = <<0, 0>>

AdlerBase == 65521

RECURSIVE AdlerUpdate(_, _, _)
AdlerUpdate(s, data, i) ==
    IF i > Len(data) THEN s
    ELSE LET a == (s[2] + data[i]) % AdlerBase
         IN  AdlerUpdate(<<(s[1] + a) % AdlerBase, a>>, data, i + 1)

Adler32(data) == AdlerUpdate(<<0, 1>>, data, 1)

\* a uint32_t as four bytes, most significant first (the zlib trailer)
BigEndian(a) == <<a[1] \div 256, a[1] % 256, a[2] \div 256, a[2] % 256>>

(***************************************************************************)
(* Cipher                                                                  *)
(***************************************************************************)
Salt == <<82, 66, 80, 97, 107, 95, 83, 97, 108, 116, 95, 50, 48, 50, 53>>  \* "RBPak_Salt_2025"
FnvBasis == <<33052, 40389>>           \* 2166136261
FnvPrime == <<256, 403>>               \* 16777619
DefaultKey == <<82, 66, 80, 107>>      \* 0x52, 0x42, 0x50, 0x6B
KeyBytes == 32

\* (The tests next = next below only make TLC evaluate a value before it
\* recurses; they are always true.)
\* the FNV-1a loop of DeriveKey, over seed[i..], from the running hash h
RECURSIVE Fnv1a(_, _, _)
Fnv1a(h, seed, i) ==
    IF i > Len(seed) THEN h
    ELSE LET next == Mul32(<<h[1], BitXor(h[2], seed[i])>>, FnvPrime)
         IN  IF next = next THEN Fnv1a(next, seed, i + 1) ELSE next

\* Round i of DeriveKey.  The source hashes the whole seed again in every
\* round; FNV-1a is a left fold, so the hash of seed || digits is the fold
\* continued over the digits from the hash of seed: `prev` is the hash of
\* the seed of the round before and `more` what was appended to it since.
RECURSIVE DeriveKeyFrom(_, _, _, _)
DeriveKeyFrom(prev, more, i, key) ==
    IF i = KeyBytes THEN key
    ELSE LET hash == Fnv1a(prev, more, 1)
             more2 == ToDecimal(hash)
             key2 == Append(key, hash[2] % 256)
         IN  IF more2 = more2 /\ key2 = key2
             THEN DeriveKeyFrom(hash, more2, i + 1, key2)
             ELSE key2

DeriveKey(input) == DeriveKeyFrom(FnvBasis, input \o Salt, 0, <<>>)

\* the key strings the configurations of this model use: "k" and "x"
KeyStrings == {<<107>>, <<120>>}

DerivedKeys == [k \in KeyStrings |-> DeriveKey(k)]

\* Cipher::Cipher: the key schedule m_key
NewCipher(key) == IF key = <<>> THEN DefaultKey ELSE DerivedKeys[key]

\* a cipher that adds the key byte instead: data[i] += m_key[i % m_key.size()]
EncryptAdd(key, data) ==
    IF key = <<>> THEN data
    ELSE [i \in 1..Len(data) |-> (data[i] + key[((i - 1) % Len(key)) + 1]) % 256]

\* Cipher::Encrypt, on a copy: data[i] ^= m_key[i % m_key.size()]
Encrypt(key, data) ==
    IF key = <<>> THEN data
    ELSE [i \in 1..Len(data) |-> BitXor(data[i], key[((i - 1) % Len(key)) + 1])]

Decrypt(key, data) == Encrypt(key, data)

(***************************************************************************)
(* hash::MurmurHash3 and hash::Obfuscate                                   *)
(***************************************************************************)
MurmurSeed == <<21058, 20577>>         \* 0x52425061
MurmurC1 == <<52382, 11601>>           \* 0xcc9e2d51
MurmurC2 == <<7047, 13715>>            \* 0x1b873593
MurmurN == <<58964, 27492>>            \* 0xe6546b64
MurmurF1 == <<34283, 51819>>           \* 0x85ebca6b
MurmurF2 == <<49842, 44597>>           \* 0xc2b2ae35

MurmurMix(k1) == Mul32(Rotl32(Mul32(k1, MurmurC1), 15), MurmurC2)

\* the loop over the 4-byte blocks, read little-endian; b is the block number
RECURSIVE MurmurBlocks(_, _, _)
MurmurBlocks(h1, key, b) ==
    IF 4 * b > Len(key) THEN h1
    ELSE LET k1 == <<key[4 * b] * 256 + key[4 * b - 1], key[4 * b - 2] * 256 + key[4 * b - 3]>>
             h2 == Rotl32(Xor32(h1, MurmurMix(k1)), 13)
         IN  MurmurBlocks(Add32(Mul32(h2, <<0, 5>>), MurmurN), key, b + 1)

MurmurTail(h1, key) ==
    LET n == Len(key) % 4
        t == Len(key) - n
        k1 == <<IF n = 3 THEN key[t + 3] ELSE 0,
                (IF n >= 2 THEN key[t + 2] * 256 ELSE 0) + (IF n >= 1 THEN key[t + 1] ELSE 0)>>
    IN  IF n = 0 THEN h1 ELSE Xor32(h1, MurmurMix(k1))

MurmurFinal(h, len) ==
    LET a == Xor32(h, <<0, len>>)
        b == Mul32(Xor32(a, Shr32(a, 16)), MurmurF1)
        c == Mul32(Xor32(b, Shr32(b, 13)), MurmurF2)
    IN  Xor32(c, Shr32(c, 16))

MurmurHash3(key) ==
    IF Len(key) = 0 THEN MurmurSeed
    ELSE MurmurFinal(MurmurTail(MurmurBlocks(MurmurSeed, key, 1), key), Len(key))

\* "rbp_" + std::to_string(hash) + ".dat"
Obfuscate(name) ==
    <<114, 98, 112, 95>> \o ToDecimal(MurmurHash3(name)) \o <<46, 100, 97, 116>>

(***************************************************************************)
(* compression::Compress and compression::Decompress                       *)
(*                                                                         *)
(* zlib's compress2 is modelled by one stream that zlib's uncompress       *)
(* accepts for the input: the two-byte zlib header of the level, one final *)
(* stored block (01, LEN, ~LEN, the bytes) and the big-endian Adler-32 of  *)
(* the bytes.  uncompress is modelled on such streams as inflate does it:  *)
(* header check, block header, lengths, room in the output buffer, Adler   *)
(* check; a stream with another block type is taken to be rejected.        *)
(***************************************************************************)
LevelNone == 0
LevelFast == 1
LevelBalanced == 6
LevelBest == 9

Result(ok, error) == [success |-> ok, error |-> error]
Success == Result(TRUE, "None")
Failure(error) == Result(FALSE, error)

ZlibFlg(level) == IF level = LevelFast THEN 1 ELSE IF level = LevelBest THEN 218 ELSE 156

Deflate(input, level) ==
    <<120, ZlibFlg(level)>>
    \o <<1, Len(input) % 256, Len(input) \div 256,
         255 - (Len(input) % 256), 255 - (Len(input) \div 256)>>
    \o input \o BigEndian(Adler32(input))

\* [result, output]
Compress(input, level) ==
    IF Len(input) = 0 THEN [result |-> Failure("InvalidParameter"), output |-> <<>>]
    ELSE IF level = LevelNone THEN [result |-> Success, output |-> input]
    ELSE [result |-> Success, output |-> Deflate(input, level)]

MaxExpected == 1073741824              \* 1024ULL * 1024 * 1024

\* uncompress(output, &size, input, input_size) with size = expected:
\* [ok, output]
Inflate(input, expected) ==
    LET n == Len(input)
        len == input[4] + 256 * input[5]
        headerOk == /\ n >= 2
                    /\ input[1] % 16 = 8
                    /\ input[1] \div 16 <= 7
                    /\ (input[1] * 256 + input[2]) % 31 = 0
                    /\ (input[2] \div 32) % 2 = 0
        blockOk == /\ n >= 7
                   /\ input[3] % 8 = 1
                   /\ len + input[6] + 256 * input[7] = 65535
                   /\ n >= 11 + len
                   /\ len <= expected
        data == SubSeq(input, 8, 7 + len)
    IN  IF headerOk /\ blockOk /\ SubSeq(input, 8 + len, 11 + len) = BigEndian(Adler32(data))
        THEN [ok |-> TRUE, output |-> data]
        ELSE [ok |-> FALSE, output |-> <<>>]

\* [result, output]
Decompress(input, expected) ==
    IF Len(input) = 0 THEN [result |-> Failure("InvalidParameter"), output |-> <<>>]
    ELSE IF expected = 0 \/ expected > MaxExpected
         THEN [result |-> Failure("InvalidParameter"), output |-> <<>>]
    ELSE LET z == Inflate(input, expected)
         IN  IF z.ok THEN [result |-> Success, output |-> z.output]
             ELSE [result |-> Failure("DecompressionFailed"), output |-> <<>>]

(***************************************************************************)
(* Bounds and inputs                                                       *)
(***************************************************************************)
MaxLen == 2        \* longest byte sequence handed to Add
SmallCache == 2    \* max_cache_size of the configurations (bytes)
MaxOps == 5        \* operations on the package in one behaviour

NameA == <<97>>                        \* "a"
NameB == <<98>>                        \* "b"
Names == {NameA, NameB}
\* the names a caller asks for: the logical ones and what obfuscation makes of them
AskNames == Names \cup {Obfuscate(n) : n \in Names}

\* "A", "AB", ...: one byte sequence of each length
Blobs == {[i \in 1..n |-> 64 + i] : n \in 1..MaxLen}

PathP == "p.pak"
Paths == {PathP}

(***************************************************************************)
(* PackageConfig (pak.h)                                                   *)
(***************************************************************************)
DefaultConfig ==
    [compression |-> LevelBalanced, encryption |-> "None", encryption_key |-> <<>>,
     obfuscate_filenames |-> FALSE, verify_checksums |-> TRUE, lazy_load |-> TRUE,
     max_cache_size |-> SmallCache]

Secure(key) ==
    [DefaultConfig EXCEPT !.encryption = "XOR", !.encryption_key = key,
                          !.obfuscate_filenames = TRUE, !.verify_checksums = TRUE]

FastLoad ==
    [DefaultConfig EXCEPT !.compression = LevelFast, !.verify_checksums = FALSE,
                          !.lazy_load = FALSE]

IsValid(cfg) == ~(cfg.encryption # "None" /\ cfg.encryption_key = <<>>)

\* the configurations packages are constructed with
Configs ==
    {DefaultConfig, FastLoad}
      \cup {Secure(k) : k \in KeyStrings}
      \cup {[DefaultConfig EXCEPT !.compression = LevelNone],
            [DefaultConfig EXCEPT !.encryption = "XOR"]}

(***************************************************************************)
(* LRUCache<std::string, ByteArray>: items is m_items, front first; m_map  *)
(* indexes m_items by key and is not kept apart; size is m_current_size.   *)
(***************************************************************************)
NewCache(capacity) == [capacity |-> capacity, size |-> 0, items |-> <<>>]

CacheKeys(c) == {c.items[i].key : i \in 1..Len(c.items)}

CacheIndex(c, key) == CHOOSE i \in 1..Len(c.items) : c.items[i].key = key

Without(items, i) == SubSeq(items, 1, i - 1) \o SubSeq(items, i + 1, Len(items))

\* LRUCache::Get: [hit, value, cache]
LruGet(c, key) ==
    IF key \notin CacheKeys(c)
    THEN [hit |-> FALSE, value |-> <<>>, cache |-> c]
    ELSE LET i == CacheIndex(c, key)
         IN  [hit |-> TRUE, value |-> c.items[i].value,
              cache |-> [c EXCEPT !.items = <<c.items[i]>> \o Without(c.items, i)]]

\* a Put that evicts nothing
EvictNone(items, current, size, capacity) == items

\* the eviction loop of Put: m_current_size is not changed by pop_back
RECURSIVE Evict(_, _, _, _)
Evict(items, current, size, capacity) ==
    IF current + size > capacity /\ items # <<>>
    THEN Evict(SubSeq(items, 1, Len(items) - 1), current, size, capacity)
    ELSE items

\* a Put that inserts the record whatever its size
LruPutOversize(c, key, value, size) ==
    LET erased == IF key \in CacheKeys(c) THEN Without(c.items, CacheIndex(c, key))
                  ELSE c.items
        kept == Evict(erased, c.size, size, c.capacity)
    IN  [c EXCEPT !.items = <<[key |-> key, value |-> value]>> \o kept,
                  !.size = c.size + size]

\* LRUCache::Put
LruPut(c, key, value, size) ==
    LET erased == IF key \in CacheKeys(c) THEN Without(c.items, CacheIndex(c, key))
                  ELSE c.items
        kept == Evict(erased, c.size, size, c.capacity)
    IN  IF size <= c.capacity
        THEN [c EXCEPT !.items = <<[key |-> key, value |-> value]>> \o kept,
                       !.size = c.size + size]
        ELSE [c EXCEPT !.items = kept]

\* LRUCache::Clear
LruClear(c) == [c EXCEPT !.items = <<>>, !.size = 0]

\* LRUCache::Size
LruSize(c) == c.size

(***************************************************************************)
(* The container file: a file is the sequence of its bytes.  IOHelper      *)
(* writes and reads fixed-width little-endian integers and strings with a  *)
(* 16-bit length in front.                                                 *)
(***************************************************************************)
SIGNATURE == <<27472, 25170>>          \* 0x6B506252
VERSION == <<2, 0>>                    \* 0x00020000
DirOffsetPos == 16                     \* file.tellp() after the first four fields
MaxNameLength == 8192
MaxInt == (Pow2(30) - 1) + Pow2(30)

NoFile == [exists |-> FALSE, bytes |-> <<>>]
FileOf(bytes) == [exists |-> TRUE, bytes |-> bytes]

U32Of(n) == <<n \div Half, n % Half>>
\* the number a uint32_t stands for; 2^31 and more are all read as MaxInt,
\* which is beyond every file and every size limit of the model
ToNat(a) == IF a[1] >= 32768 THEN MaxInt ELSE a[1] * Half + a[2]

\* IOHelper::Write<uint32_t>
Bytes32(a) == <<a[2] % 256, a[2] \div 256, a[1] % 256, a[1] \div 256>>

\* IOHelper::WriteString
WriteString(str) ==
    IF Len(str) > 65535 THEN <<>>
    ELSE <<Len(str) % 256, Len(str) \div 256>> \o str

FlagWord(cfg) ==
    (IF cfg.compression # LevelNone THEN 1 ELSE 0)
      + (IF cfg.encryption # "None" THEN 2 ELSE 0)
      + (IF cfg.obfuscate_filenames THEN 4 ELSE 0)
      + (IF cfg.verify_checksums THEN 8 ELSE 0)

\* a stream over `bytes`: the read position and the failbit
Stream(pos, fail) == [pos |-> pos, fail |-> fail]

\* istream::read of n bytes: [stream, ok, got]; a short read sets the failbit
\* and leaves the bytes that were there in got
StreamRead(bytes, st, n) ==
    IF st.fail THEN [stream |-> st, ok |-> FALSE, got |-> <<>>]
    ELSE IF n > (IF st.pos >= Len(bytes) THEN 0 ELSE Len(bytes) - st.pos)
         THEN [stream |-> Stream(st.pos, TRUE), ok |-> FALSE,
               got |-> IF st.pos >= Len(bytes) THEN <<>>
                       ELSE SubSeq(bytes, st.pos + 1, Len(bytes))]
    ELSE [stream |-> Stream(st.pos + n, FALSE), ok |-> TRUE,
          got |-> SubSeq(bytes, st.pos + 1, st.pos + n)]

\* istream::seekg: nothing happens when the failbit is set
StreamSeek(st, pos) == IF st.fail THEN st ELSE Stream(pos, FALSE)

Word32(b) == <<b[4] * 256 + b[3], b[2] * 256 + b[1]>>

\* IOHelper::Read<uint32_t>: [stream, ok, value]; value keeps `old` on failure
Read32(bytes, st, old) ==
    LET r == StreamRead(bytes, st, 4)
    IN  [stream |-> r.stream, ok |-> r.ok, value |-> IF r.ok THEN Word32(r.got) ELSE old]

\* IOHelper::ReadString: [stream, ok, str]
ReadString(bytes, st, old) ==
    LET l == StreamRead(bytes, st, 2)
        length == l.got[1] + 256 * l.got[2]
        r == StreamRead(bytes, l.stream, length)
    IN  IF ~l.ok THEN [stream |-> l.stream, ok |-> FALSE, str |-> old]
        ELSE IF length > MaxNameLength THEN [stream |-> l.stream, ok |-> FALSE, str |-> old]
        ELSE [stream |-> r.stream, ok |-> r.ok,
              str |-> [i \in 1..length |-> IF i <= Len(r.got) THEN r.got[i] ELSE 0]]

(***************************************************************************)
(* struct Entry and the package state                                      *)
(***************************************************************************)
NewEntry ==
    [name |-> <<>>, stored_name |-> <<>>, offset |-> <<0, 0>>,
     compressed_size |-> <<0, 0>>, uncompressed_size |-> <<0, 0>>,
     crc32 |-> <<0, 0>>, is_encrypted |-> FALSE, is_loaded |-> FALSE, data |-> <<>>]

NoCipher == [set |-> FALSE, key |-> <<>>]
ClosedReader == [open |-> FALSE, path |-> "", fail |-> FALSE]
NoEntries == <<>>

\* m_entries[key] = entry, and m_entries.erase(key)
Put(map, key, value) == [k \in DOMAIN map \cup {key} |-> IF k = key THEN value ELSE map[k]]
Erase(map, key) == [k \in DOMAIN map \ {key} |-> map[k]]

VARIABLES
    m_config,      \* PackageConfig
    m_entries,     \* name -> Entry
    m_filepath,
    m_reader,      \* the std::ifstream: open, on which path, failbit
    m_cipher,      \* the Cipher, or NoCipher for a null pointer
    m_cache,       \* LRUCache
    m_last_error,
    disk,          \* path -> file
    out,           \* what the last operation was and what it returned
    ops,           \* operations so far
    made,          \* history: per path, what the last Save wrote and what altered it since
    fresh,         \* history: the entries are those of the last Load, untouched
    added,         \* history: per name, the successful Adds since the entry map was last emptied
    pc,            \* per thread, where its Get stands
    th,            \* per thread, the locals of its Get and what it returned
    m_pos,         \* the get position of m_reader
    cx,            \* a Cipher on its own and the buffer it works on
    calls          \* the last batch: the names it was to go over, and its callbacks and items in order

vars == <<m_config, m_entries, m_filepath, m_reader, m_cipher, m_cache, m_last_error,
          disk, out, ops, made, fresh, added, pc, th, m_pos, cx, calls>>

\* what the calls of one thread on a Package leave alone
apart == <<pc, th, cx, calls>>

Out(op, name, ok, value, error, pipeline) ==
    [op |-> op, name |-> name, ok |-> ok, value |-> value, error |-> error,
     pipeline |-> pipeline]

\* the threads that call Get on one Package at the same time
NThreads == 2
Threads == 1..NThreads
IdleThread ==
    [name |-> <<>>, compressed |-> <<>>, decoded |-> <<>>,
     ok |-> FALSE, value |-> <<>>, error |-> "None"]

NoCipherRun == [key |-> <<>>, orig |-> <<>>, buf |-> <<>>, trace |-> <<>>]

\* no batch yet: no names handed over, nothing called
NoBatch == [over |-> <<>>, events |-> <<>>]

NothingAdded == [n \in Names |-> [count |-> 0, last |-> <<>>]]

NothingMade ==
    [ok |-> FALSE, config |-> DefaultConfig, plain |-> <<>>, stored |-> <<>>,
     region |-> <<>>, tampered |-> {}]

\* m_cipher as the constructor leaves it
CipherFor(cfg) ==
    IF cfg.encryption # "None" /\ cfg.encryption_key # <<>>
    THEN [set |-> TRUE, key |-> NewCipher(cfg.encryption_key)]
    ELSE NoCipher

\* Package::Impl::Impl
Constructed(cfg) ==
    /\ m_config' = cfg
    /\ m_entries' = NoEntries
    /\ m_filepath' = ""
    /\ m_reader' = ClosedReader
    /\ m_pos' = 0
    /\ m_cipher' = CipherFor(cfg)
    /\ m_cache' = NewCache(cfg.max_cache_size)
    /\ m_last_error' = "None"

\* a Package just constructed, and no file written yet
New(cfg) ==
    /\ m_config = cfg
    /\ m_cipher = CipherFor(cfg)
    /\ m_cache = NewCache(cfg.max_cache_size)
    /\ m_entries = NoEntries
    /\ m_filepath = ""
    /\ m_reader = ClosedReader
    /\ m_last_error = "None"
    /\ disk = [p \in Paths |-> NoFile]

Init ==
    /\ \E cfg \in Configs : New(cfg)
    /\ out = Out("Construct", <<>>, TRUE, <<>>, "None", "NotRun")
    /\ ops = 0
    /\ made = [p \in Paths |-> NothingMade]
    /\ fresh = FALSE
    /\ added = NothingAdded
    /\ m_pos = 0
    /\ pc = [t \in Threads |-> "idle"]
    /\ th = [t \in Threads |-> IdleThread]
    /\ cx = NoCipherRun
    /\ calls = NoBatch

\* a new Package replaces the one in use; the files stay (before any file is
\* written a new Package is one of the initial states)
Construct(cfg) ==
    /\ ops < MaxOps
    /\ \E p \in Paths : disk[p].exists
    /\ Constructed(cfg)
    /\ out' = Out("Construct", <<>>, TRUE, <<>>, "None", "NotRun")
    /\ ops' = ops + 1
    /\ UNCHANGED apart
    /\ fresh' = FALSE
    /\ added' = NothingAdded
    /\ UNCHANGED <<disk, made>>

\* an Entry stored under its own name whatever the configuration says
AddedEntryPlain(name, data) ==
    [NewEntry EXCEPT
       !.name = name,
       !.stored_name = name,
       !.data = data,
       !.uncompressed_size = U32Of(Len(data)),
       !.crc32 = CalculateCRC32(data),
       !.is_encrypted = (m_config.encryption # "None"),
       !.is_loaded = TRUE]

\* the Entry that Add builds
AddedEntry(name, data) ==
    [NewEntry EXCEPT
       !.name = name,
       !.stored_name = IF m_config.obfuscate_filenames THEN Obfuscate(name) ELSE name,
       !.data = data,
       !.uncompressed_size = U32Of(Len(data)),
       !.crc32 = CalculateCRC32(data),
       !.is_encrypted = (m_config.encryption # "None"),
       !.is_loaded = TRUE]

\* Add without the test of its parameters
AddUnchecked(name, data) ==
    /\ ops < MaxOps
    /\ m_entries' = Put(m_entries, name, AddedEntry(name, data))
    /\ out' = Out("Add", name, TRUE, data, "None", "NotRun")
    /\ added' = [n \in Names |-> IF n = name THEN [count |-> 1, last |-> data] ELSE added[n]]
    /\ ops' = ops + 1
    /\ UNCHANGED apart
    /\ fresh' = FALSE
    /\ UNCHANGED <<m_config, m_filepath, m_reader, m_pos, m_cipher, m_cache, m_last_error,
                   disk, made>>

\* Package::Impl::Add
Add(name, data) ==
    /\ ops < MaxOps
    /\ IF name = <<>> \/ Len(data) = 0
       THEN /\ out' = Out("Add", name, FALSE, data, "InvalidParameter", "NotRun")
            /\ UNCHANGED <<m_entries, added>>
       ELSE /\ m_entries' = Put(m_entries, name, AddedEntry(name, data))
            /\ out' = Out("Add", name, TRUE, data, "None", "NotRun")
            /\ added' = [added EXCEPT ![name] =
                            [count |-> IF @.count < 2 THEN @.count + 1 ELSE 2,
                             last |-> data]]
    /\ ops' = ops + 1
    /\ UNCHANGED apart
    /\ fresh' = FALSE
    /\ UNCHANGED <<m_config, m_filepath, m_reader, m_pos, m_cipher, m_cache, m_last_error,
                   disk, made>>

\* a decode that does not compare the checksum
DecodeUnverified(entry, compressed) ==
    LET dec == Decompress(compressed, ToNat(entry.uncompressed_size))
        decoded == IF entry.is_encrypted /\ m_cipher.set
                   THEN Decrypt(m_cipher.key, dec.output)
                   ELSE dec.output
    IN  IF ~dec.result.success
        THEN [result |-> dec.result, decoded |-> <<>>]
        ELSE [result |-> Success, decoded |-> decoded]

\* the steps of LoadEntry after the read: [result, decoded]
Decode(entry, compressed) ==
    LET dec == Decompress(compressed, ToNat(entry.uncompressed_size))
        decoded == IF entry.is_encrypted /\ m_cipher.set
                   THEN Decrypt(m_cipher.key, dec.output)
                   ELSE dec.output
    IN  IF ~dec.result.success
        THEN [result |-> dec.result, decoded |-> <<>>]
        ELSE IF m_config.verify_checksums
                /\ ~SecureCompare(CalculateCRC32(decoded), entry.crc32)
        THEN [result |-> Failure("ChecksumMismatch"), decoded |-> <<>>]
        ELSE [result |-> Success, decoded |-> decoded]

\* Package::Impl::LoadEntry: [result, entry, stream], stream the position and
\* the failbit it leaves in m_reader
LoadEntry(entry) ==
    LET bytes == disk[m_reader.path].bytes
        st == StreamSeek(Stream(m_pos, m_reader.fail), ToNat(entry.offset))
        rd == StreamRead(bytes, st, ToNat(entry.compressed_size))
        dec == Decode(entry, rd.got)
    IN  IF ~m_reader.open
        THEN [result |-> Failure("IOError"), entry |-> entry,
              stream |-> Stream(m_pos, m_reader.fail)]
        ELSE IF ~rd.ok
        THEN [result |-> Failure("IOError"), entry |-> entry, stream |-> rd.stream]
        ELSE IF ~dec.result.success
        THEN [result |-> dec.result, entry |-> entry, stream |-> rd.stream]
        ELSE [result |-> Success,
              entry |-> [entry EXCEPT !.data = dec.decoded, !.is_loaded = TRUE],
              stream |-> rd.stream]

\* Package::Impl::Get
Get(name) ==
    /\ ops < MaxOps
    /\ LET cached == LruGet(m_cache, name)
           entry == m_entries[name]
           le == LoadEntry(entry)
           loaded == IF entry.is_loaded THEN entry ELSE le.entry
       IN  IF cached.hit
           THEN /\ m_cache' = cached.cache
                /\ out' = Out("Get", name, TRUE, cached.value, "None", "NotRun")
                /\ UNCHANGED <<m_entries, m_reader, m_pos>>
           ELSE IF name \notin DOMAIN m_entries
           THEN /\ out' = Out("Get", name, FALSE, <<>>, "None", "NotRun")
                /\ UNCHANGED <<m_entries, m_reader, m_pos, m_cache>>
           ELSE IF ~entry.is_loaded /\ ~le.result.success
           THEN /\ m_reader' = [m_reader EXCEPT !.fail = le.stream.fail]
                /\ m_pos' = le.stream.pos
                /\ out' = Out("Get", name, FALSE, <<>>, "None", le.result.error)
                /\ UNCHANGED <<m_entries, m_cache>>
           ELSE /\ m_entries' = [m_entries EXCEPT ![name] = loaded]
                /\ m_reader' = IF entry.is_loaded THEN m_reader
                               ELSE [m_reader EXCEPT !.fail = le.stream.fail]
                /\ m_pos' = IF entry.is_loaded THEN m_pos ELSE le.stream.pos
                /\ m_cache' = IF m_config.lazy_load
                              THEN LruPut(m_cache, name, loaded.data, Len(loaded.data))
                              ELSE m_cache
                /\ out' = Out("Get", name, TRUE, loaded.data, "None",
                              IF entry.is_loaded THEN "NotRun" ELSE "None")
    /\ ops' = ops + 1
    /\ UNCHANGED apart
    /\ UNCHANGED <<m_config, m_filepath, m_cipher, m_last_error, disk, made, fresh, added>>

\* Package::Impl::Remove
Remove(name) ==
    /\ ops < MaxOps
    /\ m_entries' = Erase(m_entries, name)
    /\ out' = Out("Remove", name, name \in DOMAIN m_entries, <<>>, "None", "NotRun")
    /\ ops' = ops + 1
    /\ UNCHANGED apart
    /\ fresh' = FALSE
    /\ added' = [n \in Names |-> IF n = name THEN NothingAdded[n] ELSE added[n]]
    /\ UNCHANGED <<m_config, m_filepath, m_reader, m_pos, m_cipher, m_cache, m_last_error,
                   disk, made>>

\* a Clear that empties the cache as well
ClearWithCache ==
    /\ ops < MaxOps
    /\ m_entries' = NoEntries
    /\ m_filepath' = ""
    /\ m_reader' = ClosedReader
    /\ m_pos' = 0
    /\ m_cache' = LruClear(m_cache)
    /\ out' = Out("Clear", <<>>, TRUE, <<>>, "None", "NotRun")
    /\ ops' = ops + 1
    /\ UNCHANGED apart
    /\ fresh' = FALSE
    /\ added' = NothingAdded
    /\ UNCHANGED <<m_config, m_cipher, m_last_error, disk, made>>

\* Package::Impl::Clear
Clear ==
    /\ ops < MaxOps
    /\ m_entries' = NoEntries
    /\ m_filepath' = ""
    /\ m_reader' = ClosedReader
    /\ m_pos' = 0
    /\ out' = Out("Clear", <<>>, TRUE, <<>>, "None", "NotRun")
    /\ ops' = ops + 1
    /\ UNCHANGED apart
    /\ fresh' = FALSE
    /\ added' = NothingAdded
    /\ UNCHANGED <<m_config, m_cipher, m_cache, m_last_error, disk, made>>

\* Package::Impl::ClearCache
ClearCache ==
    /\ ops < MaxOps
    /\ m_cache' = LruClear(m_cache)
    /\ out' = Out("ClearCache", <<>>, TRUE, <<>>, "None", "NotRun")
    /\ ops' = ops + 1
    /\ UNCHANGED apart
    /\ UNCHANGED <<m_config, m_entries, m_filepath, m_reader, m_pos, m_cipher,
                   m_last_error, disk, made, fresh, added>>

\* the orders in which a loop over m_entries (an unordered_map) can visit the keys
Orders(keys) ==
    {o \in [1..Cardinality(keys) -> keys] :
        \A i, j \in 1..Cardinality(keys) : i # j => o[i] # o[j]}

\* a progress callback that counts the items from one
ProgressFromOne(current, total, filename) ==
    [event |-> "callback", current |-> current + 1, total |-> total, filename |-> filename]

\* callback(current++, total, name): the invocation a batch records
Progress(current, total, filename) ==
    [event |-> "callback", current |-> current, total |-> total, filename |-> filename]

\* the work of a batch on its item `current`, after the callback
Processed(current, filename, ok) ==
    [event |-> "item", current |-> current, filename |-> filename, ok |-> ok]

\* the payload loop of Save over sorted[i..]: [result, bytes, entries, calls]
RECURSIVE SavePayloads(_, _, _, _)
SavePayloads(order, i, bytes, entries) ==
    IF i > Len(order)
    THEN [result |-> Success, bytes |-> bytes, entries |-> entries, calls |-> <<>>]
    ELSE LET entry == entries[order[i]]
             called == Progress(i - 1, Len(order), entry.name)
             processed == IF entry.is_encrypted /\ m_cipher.set
                          THEN Encrypt(m_cipher.key, entry.data)
                          ELSE entry.data
             c == Compress(processed, m_config.compression)
             written == [entry EXCEPT !.offset = U32Of(Len(bytes)),
                                      !.compressed_size = U32Of(Len(c.output))]
         IN  IF ~c.result.success
             THEN [result |-> c.result, bytes |-> bytes, entries |-> entries,
                   calls |-> <<called, Processed(i - 1, entry.name, FALSE)>>]
             ELSE LET rest == SavePayloads(order, i + 1, bytes \o c.output,
                                           [entries EXCEPT ![order[i]] = written])
                  IN  [rest EXCEPT !.calls =
                          <<called, Processed(i - 1, entry.name, TRUE)>> \o @]

\* the directory loop of Save
RECURSIVE SaveDirectory(_, _, _)
SaveDirectory(order, i, entries) ==
    IF i > Len(order) THEN <<>>
    ELSE LET entry == entries[order[i]]
         IN  WriteString(entry.stored_name) \o Bytes32(entry.offset)
               \o Bytes32(entry.compressed_size) \o Bytes32(entry.uncompressed_size)
               \o Bytes32(entry.crc32) \o <<IF entry.is_encrypted THEN 1 ELSE 0>>
               \o SaveDirectory(order, i + 1, entries)

SaveHeader(count, cfg) ==
    Bytes32(SIGNATURE) \o Bytes32(VERSION) \o Bytes32(U32Of(count))
      \o Bytes32(U32Of(FlagWord(cfg))) \o Bytes32(<<0, 0>>)

\* a Save that leaves the directory_offset of the header as first written
PatchSkipped(bytes, dir_offset) == bytes

\* file.seekp(dir_offset_pos); Write(file, dir_offset)
PatchDirOffset(bytes, dir_offset) ==
    SubSeq(bytes, 1, DirOffsetPos) \o Bytes32(U32Of(dir_offset))
      \o SubSeq(bytes, DirOffsetPos + 5, Len(bytes))

\* what Save leaves in the file and in the entries when the loop visits the
\* entries in `order`: [result, bytes, entries, calls]
Written(order, entries) ==
    LET header == SaveHeader(Len(order), m_config)
        pay == SavePayloads(order, 1, header, entries)
        whole == PatchDirOffset(pay.bytes \o SaveDirectory(order, 1, pay.entries),
                                Len(pay.bytes))
    IN  [result |-> pay.result,
         bytes |-> IF pay.result.success THEN whole ELSE pay.bytes,
         entries |-> pay.entries,
         calls |-> pay.calls]

\* history of a Save of `entries` that wrote `pay`: under which configuration,
\* the bytes of the entries that had them in memory by name and by stored
\* name, and where in the file each stored name has its payload
Saved(pay, entries) ==
    [ok |-> pay.result.success,
     config |-> m_config,
     plain |-> [n \in {k \in DOMAIN entries : entries[k].is_loaded} |-> entries[n].data],
     stored |-> [sn \in {entries[k].stored_name :
                           k \in {k \in DOMAIN entries : entries[k].is_loaded}}
                   |-> {entries[k].data :
                           k \in {k \in DOMAIN entries :
                                    /\ entries[k].is_loaded
                                    /\ entries[k].stored_name = sn}}],
     region |-> [sn \in {pay.entries[k].stored_name : k \in DOMAIN entries}
                   |-> {<<ToNat(pay.entries[k].offset),
                          ToNat(pay.entries[k].compressed_size)>> :
                           k \in {k \in DOMAIN entries :
                                    pay.entries[k].stored_name = sn}}],
     tampered |-> {}]

\* Package::Impl::Save; the files of this model can always be created
Save(path, order) ==
    /\ ops < MaxOps
    /\ \E pay \in {Written(order, m_entries)} :
           /\ m_entries' = pay.entries
           /\ disk' = [disk EXCEPT ![path] = FileOf(pay.bytes)]
           /\ out' = Out("Save", <<>>, pay.result.success, <<>>, pay.result.error, "NotRun")
           /\ made' = [made EXCEPT ![path] = Saved(pay, m_entries)]
           /\ calls' = [over |-> [i \in 1..Len(order) |-> m_entries[order[i]].name],
                        events |-> pay.calls]
    /\ ops' = ops + 1
    /\ UNCHANGED <<pc, th, cx>>
    /\ fresh' = FALSE
    /\ UNCHANGED <<m_config, m_filepath, m_reader, m_pos, m_cipher, m_cache,
                   m_last_error, added>>

\* what a read leaves in a variable that was never initialised
Junk == [enc : BOOLEAN, word : {<<0, 0>>, <<0, 1>>}]

\* the directory loop of Load, `left` records to go: [stream, entries]
RECURSIVE ReadDirectory(_, _, _, _, _)
ReadDirectory(bytes, st, left, entries, junk) ==
    IF left = 0 THEN [stream |-> st, entries |-> entries]
    ELSE LET s == ReadString(bytes, st, <<>>)
             o == Read32(bytes, s.stream, <<0, 0>>)
             c == Read32(bytes, o.stream, <<0, 0>>)
             u == Read32(bytes, c.stream, <<0, 0>>)
             k == Read32(bytes, u.stream, <<0, 0>>)
             e == StreamRead(bytes, k.stream, 1)
             entry == [NewEntry EXCEPT
                         !.name = s.str, !.stored_name = s.str,
                         !.offset = o.value, !.compressed_size = c.value,
                         !.uncompressed_size = u.value, !.crc32 = k.value,
                         !.is_encrypted = IF e.ok THEN e.got[1] # 0 ELSE junk.enc,
                         !.is_loaded = FALSE]
             next == Put(entries, s.str, entry)
         IN  \* once the failbit is set every further record reads the same
             IF st.fail THEN [stream |-> st, entries |-> next]
             ELSE ReadDirectory(bytes, e.stream, left - 1, next, junk)

\* a test of the flag one place higher
BitAbove(word, k) == (word[2] \div Pow2(k + 1)) % 2 = 1

\* flags & (1 << k)
Bit(word, k) == (word[2] \div Pow2(k)) % 2 = 1

\* a Load that takes every four bytes, and their absence, for the signature
ParsedUnsigned(bytes, junk) ==
    LET sig == Read32(bytes, Stream(0, FALSE), junk.word)
        ver == Read32(bytes, sig.stream, junk.word)
        count == Read32(bytes, ver.stream, junk.word)
        flags == Read32(bytes, count.stream, junk.word)
        dir_off == Read32(bytes, flags.stream, junk.word)
    IN  [sig |-> [sig EXCEPT !.ok = TRUE, !.value = SIGNATURE], flags |-> flags,
         dir |-> ReadDirectory(bytes, StreamSeek(dir_off.stream, ToNat(dir_off.value)),
                               ToNat(count.value), NoEntries, junk)]

\* what Load reads from the bytes of an opened file: [sig, flags, dir]
Parsed(bytes, junk) ==
    LET sig == Read32(bytes, Stream(0, FALSE), junk.word)
        ver == Read32(bytes, sig.stream, junk.word)
        count == Read32(bytes, ver.stream, junk.word)
        flags == Read32(bytes, count.stream, junk.word)
        dir_off == Read32(bytes, flags.stream, junk.word)
    IN  [sig |-> sig, flags |-> flags,
         dir |-> ReadDirectory(bytes, StreamSeek(dir_off.stream, ToNat(dir_off.value)),
                               ToNat(count.value), NoEntries, junk)]

\* Package::Impl::Load
Load(path, junk) ==
    /\ ops < MaxOps
    /\ \E parsed \in {Parsed(disk[path].bytes, junk)} :
       LET sig == parsed.sig
           flags == parsed.flags
           dir == parsed.dir
       IN  IF ~disk[path].exists
           THEN /\ m_reader' = ClosedReader
                /\ m_pos' = 0
                /\ m_filepath' = ""
                /\ m_entries' = NoEntries
                /\ out' = Out("Load", <<>>, FALSE, <<>>, "FileNotFound", "NotRun")
                /\ fresh' = FALSE
                /\ UNCHANGED m_config
           ELSE IF ~sig.ok \/ sig.value # SIGNATURE
           THEN /\ m_reader' = [open |-> TRUE, path |-> path, fail |-> sig.stream.fail]
                /\ m_pos' = sig.stream.pos
                /\ m_filepath' = path
                /\ m_entries' = NoEntries
                /\ out' = Out("Load", <<>>, FALSE, <<>>, "InvalidSignature", "NotRun")
                /\ fresh' = FALSE
                /\ UNCHANGED m_config
           ELSE /\ m_reader' = [open |-> TRUE, path |-> path, fail |-> dir.stream.fail]
                /\ m_pos' = dir.stream.pos
                /\ m_filepath' = path
                /\ m_config' = [m_config EXCEPT
                      !.encryption = IF Bit(flags.value, 1) THEN "XOR" ELSE "None",
                      !.obfuscate_filenames = Bit(flags.value, 2),
                      !.verify_checksums = Bit(flags.value, 3)]
                /\ m_entries' = dir.entries
                /\ out' = Out("Load", <<>>, TRUE, <<>>, "None", "NotRun")
                /\ fresh' = made[path].ok
    /\ ops' = ops + 1
    /\ UNCHANGED apart
    /\ added' = NothingAdded
    /\ UNCHANGED <<m_cipher, m_cache, m_last_error, disk, made>>

\* the environment alters one byte of an entry's stored payload in a file that
\* Save wrote whole
FlipMasks == {1}

Tamper(path, sn, i, mask) ==
    /\ ops < MaxOps
    /\ made[path].ok
    /\ made[path].tampered = {}
    /\ sn \in DOMAIN made[path].region
    /\ \E r \in made[path].region[sn] : i > r[1] /\ i <= r[1] + r[2]
    /\ disk' = [disk EXCEPT ![path].bytes[i] = BitXor(@, mask)]
    /\ made' = [made EXCEPT ![path].tampered = {sn}]
    /\ out' = Out("Tamper", sn, TRUE, <<>>, "None", "NotRun")
    /\ ops' = ops + 1
    /\ UNCHANGED apart
    /\ UNCHANGED <<m_config, m_entries, m_filepath, m_reader, m_pos, m_cipher, m_cache,
                   m_last_error, fresh, added>>

Next ==
    \/ \E cfg \in Configs : Construct(cfg)
    \/ \E n \in Names, d \in Blobs : Add(n, d)
    \/ \E n \in AskNames : Get(n)
    \/ \E n \in AskNames : Remove(n)
    \/ Clear
    \/ ClearCache
    \/ \E p \in Paths, o \in Orders(DOMAIN m_entries) : Save(p, o)
    \/ \E p \in Paths, j \in Junk : Load(p, j)
    \/ \E p \in Paths : \E sn \in DOMAIN made[p].region :
          \E i \in 1..Len(disk[p].bytes), m \in FlipMasks : Tamper(p, sn, i, m)

Spec == Init /\ [][Next]_vars

(***************************************************************************)
(* Properties of the calls of one thread, under Spec                       *)
(***************************************************************************)

\* the Package holds what Load read from a file that Save wrote whole and that
\* nothing altered since, and the last call was a Get
GetAfterLoad ==
    /\ out.op = "Get"
    /\ fresh
    /\ m_filepath \in Paths
    /\ made[m_filepath].tampered = {}

\* C1: round trip. After Add(n, B), Save(p), Load(p), under every
\* configuration, Get(n) returns bytes equal to B.
C1_RoundTrip ==
    \A p \in Paths :
        (GetAfterLoad /\ m_filepath = p /\ out.name \in DOMAIN made[p].plain)
            => (out.ok /\ out.value = made[p].plain[out.name])

\* C2: no silent corruption. With checksum verification on, once a byte of an
\* entry's stored payload was altered in the file, a Get of that entry on a
\* Package loaded from the file never returns bytes other than those given to
\* Add, and its decode fails with ChecksumMismatch.
C2_NoSilentCorruption ==
    \A p \in Paths :
        (/\ out.op = "Get" /\ fresh /\ m_filepath = p
         /\ m_config.verify_checksums
         /\ out.name \in made[p].tampered)
            => /\ out.ok => out.value \in made[p].stored[out.name]
               /\ out.pipeline # "NotRun"
                    => (~out.ok /\ out.pipeline = "ChecksumMismatch")

\* C3: cache bound. In every state the size the cache reports is at most
\* max_cache_size.
C3_CacheBound == LruSize(m_cache) <= m_config.max_cache_size

\* C4: name uniqueness. After Add(n, a) and then Add(n, b), Get(n) returns b.
C4_NameUniqueness ==
    (out.op = "Get" /\ out.name \in Names /\ added[out.name].count = 2)
        => (out.ok /\ out.value = added[out.name].last)

\* C5: a Get of a name that is not a key of the entry map returns absent.
C5_GetAbsent ==
    (out.op = "Get" /\ out.name \notin DOMAIN m_entries) => ~out.ok

\* C6: after a Get that returned absent because LoadEntry failed with kind K,
\* last_error is K.
C6_LastErrorSet ==
    (out.op = "Get" /\ out.pipeline \notin {"NotRun", "None"})
        => m_last_error = out.pipeline

\* C7: when LoadEntry decodes an entry whose is_encrypted flag is set and the
\* Package has no cipher, no bytes are returned, and unless the read or the
\* decompression failed first the kind is DecryptionFailed.
C7_NoCipherFails ==
    (/\ out.op = "Get" /\ out.pipeline # "NotRun"
     /\ m_entries[out.name].is_encrypted
     /\ ~m_cipher.set)
        => /\ ~out.ok
           /\ out.pipeline \in {"DecryptionFailed", "IOError", "DecompressionFailed"}

\* the file at p was saved whole by a Package whose configuration is Secure(k)
SavedSecure(p) ==
    /\ made[p].ok
    /\ \E k \in KeyStrings : made[p].config = Secure(k)

\* C8: encrypted round trip. A Package with a cipher that loaded a file saved
\* with Secure(k), asked for a name that was given to Add, returns the original
\* bytes when its key is k, and otherwise no bytes, the decode failing with
\* ChecksumMismatch.
C8_EncryptedRoundTrip ==
    \A p \in Paths :
        (/\ GetAfterLoad /\ m_filepath = p /\ SavedSecure(p) /\ m_cipher.set
         /\ out.name \in DOMAIN made[p].plain)
            => IF m_config.encryption_key = made[p].config.encryption_key
               THEN out.ok /\ out.value = made[p].plain[out.name]
               ELSE ~out.ok /\ out.pipeline = "ChecksumMismatch"

\* C12: while the configuration is invalid (an encryption other than None
\* and an empty encryption_key) every Add and every Save fails with
\* InvalidParameter, and no Save writes an entry flagged is_encrypted that
\* did not go through the cipher.
C12_InvalidConfigRefused ==
    /\ (out.op \in {"Add", "Save"} /\ ~IsValid(m_config))
         => (~out.ok /\ out.error = "InvalidParameter")
    /\ (out.op = "Save" /\ out.ok)
         => \A k \in DOMAIN m_entries : m_entries[k].is_encrypted => m_cipher.set

(***************************************************************************)
(* Concurrent Gets on one loaded Package.  The only lock in the library is *)
(* the mutex of the cache, so a Get is the sequence of steps below and the *)
(* steps of different threads interleave.                                  *)
(***************************************************************************)
ConcConfigs == {DefaultConfig, FastLoad}

\* what the loaded file holds: the longest blob under NameA, "A" under NameB
ConcData == [n \in Names |-> [i \in 1..(IF n = NameA THEN MaxLen ELSE 1) |-> 64 + i]]

\* the variables that no step of a Get changes
still == <<m_config, m_filepath, m_cipher, m_last_error, disk, out, ops, made, fresh,
           added, cx, calls>>

\* a Package that added ConcData, saved it and loaded the file again
ConcInit ==
    /\ \E cfg \in ConcConfigs :
         /\ m_config = cfg
         /\ m_cipher = CipherFor(cfg)
         /\ m_cache = NewCache(cfg.max_cache_size)
    /\ m_last_error = "None"
    /\ \E order \in Orders(Names) :
         LET entries == [n \in Names |-> AddedEntry(n, ConcData[n])]
             pay == Written(order, entries)
             parsed == Parsed(pay.bytes, CHOOSE j \in Junk : TRUE)
         IN  /\ disk = [p \in Paths |-> FileOf(pay.bytes)]
             /\ made = [p \in Paths |-> Saved(pay, entries)]
             /\ m_entries = parsed.dir.entries
             /\ m_reader = [open |-> TRUE, path |-> PathP, fail |-> parsed.dir.stream.fail]
             /\ m_pos = parsed.dir.stream.pos
    /\ m_filepath = PathP
    /\ out = Out("Load", <<>>, TRUE, <<>>, "None", "NotRun")
    /\ ops = 0
    /\ fresh = TRUE
    /\ added = NothingAdded
    /\ pc = [t \in Threads |-> "idle"]
    /\ th = [t \in Threads |-> IdleThread]
    /\ cx = NoCipherRun
    /\ calls = NoBatch

Returned(t, ok, value, error) ==
    /\ th' = [th EXCEPT ![t].ok = ok, ![t].value = value, ![t].error = error]
    /\ pc' = [pc EXCEPT ![t] = "done"]

\* what a read of entry->data can see: std::vector has no synchronisation, so
\* while another thread is about to move-assign the same entry's data the read
\* is a data race and may see neither the old nor the new bytes
Torn == <<>>
Racy(t, name) ==
    {m_entries[name].data}
      \cup (IF \E u \in Threads \ {t} : pc[u] = "store" /\ th[u].name = name
            THEN {Torn} ELSE {})

\* Get: m_cache.Get(key), under the mutex of the cache
GetCached(t, name) ==
    /\ pc[t] = "idle"
    /\ LET cached == LruGet(m_cache, name)
       IN  /\ m_cache' = cached.cache
           /\ th' = [th EXCEPT ![t] = [IdleThread EXCEPT !.name = name,
                                                         !.ok = cached.hit,
                                                         !.value = cached.value]]
           /\ pc' = [pc EXCEPT ![t] = IF cached.hit THEN "done" ELSE "find"]
    /\ UNCHANGED <<m_entries, m_reader, m_pos>>
    /\ UNCHANGED still

\* Get: m_entries.find(key) and the test of entry->is_loaded
GetFind(t) ==
    /\ pc[t] = "find"
    /\ IF th[t].name \notin DOMAIN m_entries
       THEN Returned(t, FALSE, <<>>, "None")
       ELSE /\ pc' = [pc EXCEPT ![t] = IF m_entries[th[t].name].is_loaded
                                       THEN "put" ELSE "seek"]
            /\ UNCHANGED th
    /\ UNCHANGED <<m_entries, m_reader, m_pos, m_cache>>
    /\ UNCHANGED still

\* LoadEntry: m_reader.is_open() and m_reader.seekg(entry->offset)
GetSeek(t) ==
    /\ pc[t] = "seek"
    /\ IF ~m_reader.open
       THEN /\ Returned(t, FALSE, <<>>, "IOError")
            /\ UNCHANGED m_pos
       ELSE /\ m_pos' = StreamSeek(Stream(m_pos, m_reader.fail),
                                   ToNat(m_entries[th[t].name].offset)).pos
            /\ pc' = [pc EXCEPT ![t] = "read"]
            /\ UNCHANGED th
    /\ UNCHANGED <<m_entries, m_reader, m_cache>>
    /\ UNCHANGED still

\* LoadEntry: m_reader.read(compressed.data(), entry->compressed_size), from
\* wherever the shared get position stands by now
GetRead(t) ==
    /\ pc[t] = "read"
    /\ LET rd == StreamRead(disk[m_reader.path].bytes, Stream(m_pos, m_reader.fail),
                            ToNat(m_entries[th[t].name].compressed_size))
       IN  /\ m_pos' = rd.stream.pos
           /\ m_reader' = [m_reader EXCEPT !.fail = rd.stream.fail]
           /\ IF rd.ok
              THEN /\ th' = [th EXCEPT ![t].compressed = rd.got]
                   /\ pc' = [pc EXCEPT ![t] = "decode"]
              ELSE Returned(t, FALSE, <<>>, "IOError")
    /\ UNCHANGED <<m_entries, m_cache>>
    /\ UNCHANGED still

\* LoadEntry: Decompress, Decrypt and the CRC comparison, on the thread's own buffers
GetDecode(t) ==
    /\ pc[t] = "decode"
    /\ LET dec == Decode(m_entries[th[t].name], th[t].compressed)
       IN  IF dec.result.success
           THEN /\ th' = [th EXCEPT ![t].decoded = dec.decoded]
                /\ pc' = [pc EXCEPT ![t] = "store"]
           ELSE Returned(t, FALSE, <<>>, dec.result.error)
    /\ UNCHANGED <<m_entries, m_reader, m_pos, m_cache>>
    /\ UNCHANGED still

\* LoadEntry: entry->data = std::move(decompressed); entry->is_loaded = true
GetStore(t) ==
    /\ pc[t] = "store"
    /\ m_entries' = [m_entries EXCEPT ![th[t].name] =
                        [@ EXCEPT !.data = th[t].decoded, !.is_loaded = TRUE]]
    /\ pc' = [pc EXCEPT ![t] = "put"]
    /\ UNCHANGED <<th, m_reader, m_pos, m_cache>>
    /\ UNCHANGED still

\* Get: m_cache.Put(key, entry->data, entry->data.size()) when lazy_load
GetPut(t) ==
    /\ pc[t] = "put"
    /\ IF m_config.lazy_load
       THEN \E v \in Racy(t, th[t].name) :
               m_cache' = LruPut(m_cache, th[t].name, v, Len(v))
       ELSE UNCHANGED m_cache
    /\ pc' = [pc EXCEPT ![t] = "ret"]
    /\ UNCHANGED <<th, m_entries, m_reader, m_pos>>
    /\ UNCHANGED still

\* Get: return entry->data
GetReturn(t) ==
    /\ pc[t] = "ret"
    /\ \E v \in Racy(t, th[t].name) : Returned(t, TRUE, v, "None")
    /\ UNCHANGED <<m_entries, m_reader, m_pos, m_cache>>
    /\ UNCHANGED still

ConcNext ==
    \/ \E t \in Threads, n \in AskNames : GetCached(t, n)
    \/ \E t \in Threads : GetFind(t)
    \/ \E t \in Threads : GetSeek(t)
    \/ \E t \in Threads : GetRead(t)
    \/ \E t \in Threads : GetDecode(t)
    \/ \E t \in Threads : GetStore(t)
    \/ \E t \in Threads : GetPut(t)
    \/ \E t \in Threads : GetReturn(t)

SpecConc == ConcInit /\ [][ConcNext]_vars

\* C9: every Get of concurrent Gets on a loaded Package that returns bytes
\* returns exactly the plaintext of the entry it asked for.
C9_ConcurrentGetSafe ==
    \A t \in Threads :
        (pc[t] = "done" /\ th[t].ok)
            => /\ th[t].name \in DOMAIN made[m_filepath].plain
               /\ th[t].value = made[m_filepath].plain[th[t].name]

(***************************************************************************)
(* The Cipher on its own: a key string and a buffer, and Encrypt and       *)
(* Decrypt applied to the buffer.                                          *)
(***************************************************************************)
CipherLen == 5
CipherOps == 2
\* key strings; the empty one makes the constructor take the built-in key
CipherKeys == {<<>>} \cup KeyStrings
\* buffers up to CipherLen bytes, and one longer than a derived key
CipherTexts ==
    {[i \in 1..n |-> (i * m) % 256] :
        n \in (0..CipherLen) \cup {KeyBytes + CipherLen}, m \in {37, 255}}

CipherInit ==
    /\ New(DefaultConfig)
    /\ out = Out("Construct", <<>>, TRUE, <<>>, "None", "NotRun")
    /\ ops = 0
    /\ made = [p \in Paths |-> NothingMade]
    /\ fresh = FALSE
    /\ added = NothingAdded
    /\ m_pos = 0
    /\ pc = [t \in Threads |-> "idle"]
    /\ th = [t \in Threads |-> IdleThread]
    /\ \E k \in CipherKeys, x \in CipherTexts :
          cx = [key |-> NewCipher(k), orig |-> x, buf |-> x, trace |-> <<>>]
    /\ calls = NoBatch

package == <<m_config, m_entries, m_filepath, m_reader, m_cipher, m_cache, m_last_error,
             disk, out, ops, made, fresh, added, pc, th, m_pos, calls>>

CipherEncrypt ==
    /\ Len(cx.trace) < CipherOps
    /\ cx' = [cx EXCEPT !.buf = Encrypt(cx.key, cx.buf), !.trace = Append(@, "Encrypt")]
    /\ UNCHANGED package

CipherDecrypt ==
    /\ Len(cx.trace) < CipherOps
    /\ cx' = [cx EXCEPT !.buf = Decrypt(cx.key, cx.buf), !.trace = Append(@, "Decrypt")]
    /\ UNCHANGED package

CipherNext == CipherEncrypt \/ CipherDecrypt

SpecCipher == CipherInit /\ [][CipherNext]_vars

\* C10: cipher symmetry. Decrypt after Encrypt, and Encrypt after Decrypt,
\* under the same key give back the buffer, and each of the two alone XORs
\* byte i with key[i mod keylen].
C10_CipherSymmetry ==
    /\ cx.trace \in {<<"Encrypt", "Decrypt">>, <<"Decrypt", "Encrypt">>}
         => cx.buf = cx.orig
    /\ Len(cx.trace) = 1
         => /\ Len(cx.buf) = Len(cx.orig)
            /\ \A i \in 1..Len(cx.orig) :
                  cx.buf[i] = BitXor(cx.orig[i], cx.key[((i - 1) % Len(cx.key)) + 1])

\* a buffer longer than the key was encrypted, which changed it, and decrypted
C10_WrappedRoundTrip ==
    /\ cx.trace = <<"Encrypt", "Decrypt">>
    /\ Len(cx.orig) > Len(cx.key)
    /\ Encrypt(cx.key, cx.orig) # cx.orig

(***************************************************************************)
(* A Package at work on a file it wrote earlier: it added ConcData, saved  *)
(* and loaded the file, and now takes the calls of one thread, Add with    *)
(* the empty name and the empty byte sequence among them.                  *)
(***************************************************************************)
ReopenOps == 3     \* operations on the reopened package in one behaviour

ReopenConfigs == {DefaultConfig} \cup {Secure(k) : k \in KeyStrings}

EdgeNames == Names \cup {<<>>}
EdgeBlobs == Blobs \cup {<<>>}

ReopenInit ==
    /\ \E cfg \in ReopenConfigs :
         /\ m_config = cfg
         /\ m_cipher = CipherFor(cfg)
         /\ m_cache = NewCache(cfg.max_cache_size)
    /\ m_last_error = "None"
    /\ \E order \in Orders(Names) :
        \E entries \in {[n \in Names |-> AddedEntry(n, ConcData[n])]} :
        \E pay \in {Written(order, entries)} :
        \E parsed \in {Parsed(pay.bytes, CHOOSE j \in Junk : TRUE)} :
             /\ disk = [p \in Paths |-> FileOf(pay.bytes)]
             /\ made = [p \in Paths |-> Saved(pay, entries)]
             /\ m_entries = parsed.dir.entries
             /\ m_reader = [open |-> TRUE, path |-> PathP, fail |-> parsed.dir.stream.fail]
             /\ m_pos = parsed.dir.stream.pos
    /\ m_filepath = PathP
    /\ out = Out("Load", <<>>, TRUE, <<>>, "None", "NotRun")
    /\ ops = MaxOps - ReopenOps
    /\ fresh = TRUE
    /\ added = NothingAdded
    /\ pc = [t \in Threads |-> "idle"]
    /\ th = [t \in Threads |-> IdleThread]
    /\ cx = NoCipherRun
    /\ calls = NoBatch

ReopenNext ==
    \/ \E n \in EdgeNames, d \in EdgeBlobs : Add(n, d)
    \/ \E n \in DOMAIN m_entries \cup Names : Get(n)
    \/ \E n \in DOMAIN m_entries \cup Names : Remove(n)
    \/ Clear
    \/ \E p \in Paths, o \in Orders(DOMAIN m_entries) : Save(p, o)
    \/ \E p \in Paths, j \in Junk : Load(p, j)

SpecReopen == ReopenInit /\ [][ReopenNext]_vars

\* a name of the form rbp_<decimal digits>.dat
IsObfuscated(str) ==
    /\ Len(str) > 8
    /\ SubSeq(str, 1, 4) = <<114, 98, 112, 95>>
    /\ SubSeq(str, Len(str) - 3, Len(str)) = <<46, 100, 97, 116>>
    /\ \A i \in 5..(Len(str) - 4) : str[i] \in 48..57

\* C17: the directory that a Save writes holds, with obfuscate_filenames
\* on, the obfuscated name rbp_<hash>.dat of every entry (the hash of its
\* name for an entry that Add made, the name it was read under for an
\* entry that a Load registered) and no logical name, and with it off the
\* name of every entry; after a Load every entry has name = stored_name.
C17_DirectoryNames ==
    [][/\ \A p \in Paths, o \in Orders(DOMAIN m_entries) :
            (Save(p, o) /\ out'.ok) =>
               LET records == DOMAIN Parsed(disk'[p].bytes, CHOOSE j \in Junk : TRUE).dir.entries
                   expected == {IF /\ m_config.obfuscate_filenames
                                   /\ k \in Names
                                   /\ added[k].count > 0
                                THEN Obfuscate(k) ELSE k : k \in DOMAIN m_entries}
               IN  /\ records = expected
                   /\ m_config.obfuscate_filenames => \A r \in records : IsObfuscated(r)
       /\ (out'.op = "Load" /\ ops' = ops + 1 /\ out'.ok) =>
            \A k \in DOMAIN m_entries' :
               m_entries'[k].name = k /\ m_entries'[k].stored_name = k]_vars

\* a Save under obfuscate_filenames wrote the directory of entries that an
\* earlier Load had registered
C17_ReloadedSavedObfuscated ==
    /\ out.op = "Save"
    /\ out.ok
    /\ m_config.obfuscate_filenames
    /\ m_entries # NoEntries
    /\ \A k \in DOMAIN m_entries : k \notin Names

\* what List() returns after a Load of a file of these bytes: the names that
\* Load registers, and none when it refuses the file
ListAfterLoad(bytes, junk) ==
    LET parsed == Parsed(bytes, junk)
    IN  IF ~parsed.sig.ok \/ parsed.sig.value # SIGNATURE THEN {}
        ELSE DOMAIN parsed.dir.entries

\* C18: Remove(name) returns true exactly when name had an entry; after it
\* name has none and every other entry is as it was; and the file that a
\* Save right after it writes loads to a package whose List() is the names
\* of the entries that remained, each as the directory stores it.
C18_RemoveThenResave ==
    [][/\ (out'.op = "Remove" /\ ops' = ops + 1) =>
            /\ out'.ok = (out'.name \in DOMAIN m_entries)
            /\ out'.name \notin DOMAIN m_entries'
            /\ DOMAIN m_entries' = DOMAIN m_entries \ {out'.name}
            /\ \A k \in DOMAIN m_entries' : m_entries'[k] = m_entries[k]
       /\ \A p \in Paths, o \in Orders(DOMAIN m_entries) :
            (out.op = "Remove" /\ Save(p, o)) =>
               \A j \in Junk :
                  ListAfterLoad(disk'[p].bytes, j)
                     = {m_entries[k].stored_name : k \in DOMAIN m_entries}]_vars

\* C11: an Add with the empty name or with no bytes fails with
\* InvalidParameter and leaves the entry map as it was.
C11_AddRejectsEmpty ==
    [][(out'.op = "Add" /\ ops' = ops + 1 /\ (out'.name = <<>> \/ out'.value = <<>>))
         => /\ ~out'.ok
            /\ out'.error = "InvalidParameter"
            /\ m_entries' = m_entries]_vars

\* an Add of no bytes under a name that has an entry was refused, and an Add
\* of bytes under the empty name likewise
C11_EmptyAddRefused ==
    /\ out.op = "Add"
    /\ ~out.ok
    /\ \/ out.value = <<>> /\ out.name \in DOMAIN m_entries
       \/ out.name = <<>> /\ out.value # <<>> /\ m_entries # NoEntries

(***************************************************************************)
(* Files that did not come out of Save as they are: a new Package, and on  *)
(* the disk a package file that something else truncated, overwrote in     *)
(* part, or never wrote.                                                   *)
(***************************************************************************)
FileOps == 3       \* operations in one behaviour that starts from such a file

FileConfigs == {DefaultConfig, FastLoad}

\* `bytes` with `new` written over it from position pos (0-based)
Patch(bytes, pos, new) ==
    [i \in 1..Len(bytes) |-> IF i > pos /\ i <= pos + Len(new) THEN new[i - pos] ELSE bytes[i]]

\* the first n bytes of a file, or all it has
Leading(bytes, n) == SubSeq(bytes, 1, IF Len(bytes) < n THEN Len(bytes) ELSE n)

\* where the k-th directory record starts in a file Save wrote whole for
\* entries with names of one byte, and the length of such a record
RecordLen == 20
RecordPos(bytes, k) ==
    ToNat(Word32(SubSeq(bytes, DirOffsetPos + 1, DirOffsetPos + 4))) + (k - 1) * RecordLen

LongName == <<1, 32>>                  \* name_length 0x2001 = 8193
HugeSize == <<16384, 1>>               \* uncompressed_size 0x40000001 = 1 GiB + 1

\* the files made from the whole file `bytes`
Crafted(bytes) ==
    {FileOf(bytes), NoFile, FileOf(Patch(bytes, 0, <<80, 75>>))}
      \cup {FileOf(SubSeq(bytes, 1, n)) : n \in 0..4}
      \cup {FileOf(Patch(bytes, RecordPos(bytes, k), LongName)) : k \in 1..2}
      \cup {FileOf(Patch(bytes, RecordPos(bytes, k) + 11, Bytes32(HugeSize))) : k \in 1..2}

FilesInit ==
    /\ \E cfg \in FileConfigs :
         /\ m_config = cfg
         /\ m_cipher = CipherFor(cfg)
         /\ m_cache = NewCache(cfg.max_cache_size)
    /\ m_last_error = "None"
    /\ \E order \in Orders(Names) :
        \E entries \in {[n \in Names |-> AddedEntry(n, ConcData[n])]} :
        \E pay \in {Written(order, entries)} :
        \E file \in Crafted(pay.bytes) :
             disk = [p \in Paths |-> file]
    /\ made = [p \in Paths |-> NothingMade]
    /\ m_entries = NoEntries
    /\ m_reader = ClosedReader
    /\ m_pos = 0
    /\ m_filepath = ""
    /\ out = Out("Construct", <<>>, TRUE, <<>>, "None", "NotRun")
    /\ ops = MaxOps - FileOps
    /\ fresh = FALSE
    /\ added = NothingAdded
    /\ pc = [t \in Threads |-> "idle"]
    /\ th = [t \in Threads |-> IdleThread]
    /\ cx = NoCipherRun
    /\ calls = NoBatch

\* what the stack can hold where ValidatePackageFile has its `sig`: nothing,
\* or the signature that a call before it compared there
JunkWords == {<<0, 0>>, SIGNATURE}

\* pak_utils::ValidatePackageFile, `word` what `sig` held before the read;
\* out.value is what the read delivered
ValidatePackageFile(path, word) ==
    /\ ops < MaxOps
    /\ LET r == StreamRead(disk[path].bytes, Stream(0, FALSE), 4)
           sig == Word32(r.got \o SubSeq(Bytes32(word), Len(r.got) + 1, 4))
       IN  out' = IF ~disk[path].exists
                  THEN Out("ValidatePackageFile", <<>>, FALSE, <<>>, "None", "NotRun")
                  ELSE Out("ValidatePackageFile", <<>>, sig = SIGNATURE, r.got, "None",
                           "NotRun")
    /\ ops' = ops + 1
    /\ UNCHANGED apart
    /\ UNCHANGED <<m_config, m_entries, m_filepath, m_reader, m_pos, m_cipher, m_cache,
                   m_last_error, disk, made, fresh, added>>

GetFileCount == Cardinality(DOMAIN m_entries)

FilesNext ==
    \/ \E p \in Paths, j \in Junk : Load(p, j)
    \/ \E p \in Paths, w \in JunkWords : ValidatePackageFile(p, w)
    \/ \E n \in Names, d \in Blobs : Add(n, d)
    \/ \E n \in DOMAIN m_entries \cup Names : Get(n)
    \/ Clear

SpecFiles == FilesInit /\ [][FilesNext]_vars

\* some directory record of the file declares a name_length above 8192 (the
\* records before it read as Save writes them); st is where the record starts
RECURSIVE DeclaresLongName(_, _, _)
DeclaresLongName(bytes, st, left) ==
    LET l == StreamRead(bytes, st, 2)
        length == l.got[1] + 256 * l.got[2]
    IN  IF left = 0 \/ ~l.ok THEN FALSE
        ELSE IF length > MaxNameLength THEN TRUE
        ELSE DeclaresLongName(bytes, Stream(l.stream.pos + length + 17, FALSE), left - 1)

\* the header of a file that has one whole: [count, dir_off]
HeaderOf(bytes) ==
    [count |-> ToNat(Word32(SubSeq(bytes, 9, 12))),
     dir_off |-> ToNat(Word32(SubSeq(bytes, 17, 20)))]

\* C13: a Load of a file with the signature whose directory declares a
\* name_length above 8192 in some record fails with CorruptedData.
C13_LongNameRejected ==
    (/\ out.op = "Load"
     /\ m_filepath \in Paths
     /\ Len(disk[m_filepath].bytes) >= 20
     /\ Leading(disk[m_filepath].bytes, 4) = Bytes32(SIGNATURE)
     /\ DeclaresLongName(disk[m_filepath].bytes,
                         Stream(HeaderOf(disk[m_filepath].bytes).dir_off, FALSE),
                         HeaderOf(disk[m_filepath].bytes).count))
      => (~out.ok /\ out.error = "CorruptedData")

\* some directory record of the file declares an uncompressed_size above
\* 1 GiB (the records are read as Save writes them)
RECURSIVE DeclaresHugeSize(_, _, _)
DeclaresHugeSize(bytes, st, left) ==
    LET l == StreamRead(bytes, st, 2)
        length == l.got[1] + 256 * l.got[2]
        rest == StreamRead(bytes, l.stream, length + 17)
        size == Word32(SubSeq(rest.got, length + 9, length + 12))
    IN  IF left = 0 \/ ~l.ok \/ ~rest.ok THEN FALSE
        ELSE IF ToNat(size) > MaxExpected THEN TRUE
        ELSE DeclaresHugeSize(bytes, rest.stream, left - 1)

\* C14: a package file with the signature whose directory declares an
\* uncompressed_size above 1 GiB for some entry is rejected: the Load of it
\* fails with CorruptedData.
C14_HugeSizeRejected ==
    (/\ out.op = "Load"
     /\ m_filepath \in Paths
     /\ Len(disk[m_filepath].bytes) >= 20
     /\ Leading(disk[m_filepath].bytes, 4) = Bytes32(SIGNATURE)
     /\ DeclaresHugeSize(disk[m_filepath].bytes,
                         Stream(HeaderOf(disk[m_filepath].bytes).dir_off, FALSE),
                         HeaderOf(disk[m_filepath].bytes).count))
      => (~out.ok /\ out.error = "CorruptedData")

\* C15: a Load of a path that cannot be opened fails with FileNotFound, a
\* Load of a file whose first four bytes are not the signature (a file of
\* fewer bytes among them) fails with InvalidSignature, and either leaves
\* the Package with no entry.
C15_LoadRefusals ==
    [][\A p \in Paths :
         (\E j \in Junk : Load(p, j)) =>
            /\ ~disk[p].exists =>
                 (~out'.ok /\ out'.error = "FileNotFound" /\ GetFileCount' = 0)
            /\ (disk[p].exists /\ Leading(disk[p].bytes, 4) # Bytes32(SIGNATURE)) =>
                 (~out'.ok /\ out'.error = "InvalidSignature" /\ GetFileCount' = 0)]_vars

\* a Package whose cache shows that it had an entry and returned its bytes
\* was asked to load a file of fewer than four bytes, and refused it
C15_ShortFileRefused ==
    /\ out.op = "Load"
    /\ out.error = "InvalidSignature"
    /\ m_filepath \in Paths
    /\ Len(disk[m_filepath].bytes) < 4
    /\ CacheKeys(m_cache) # {}
    /\ GetFileCount = 0

\* C16: ValidatePackageFile answers true exactly when the file exists and
\* its first four bytes are the signature in little-endian order; a missing
\* file and a file of fewer than four bytes get false.
C16_ValidateBySignature ==
    out.op = "ValidatePackageFile" => (out.ok <=> out.value = Bytes32(SIGNATURE))

GetCacheSize == LruSize(m_cache)

\* C19: Clear leaves the Package with no entry, the reader closed and the
\* file path empty, and the cache as it was: the same records in the same
\* order and the same GetCacheSize().
C19_ClearKeepsCache ==
    [][(out'.op = "Clear" /\ ops' = ops + 1) =>
          /\ GetFileCount' = 0
          /\ ~m_reader'.open
          /\ m_filepath' = ""
          /\ m_cache'.items = m_cache.items
          /\ GetCacheSize' = GetCacheSize]_vars

\* a Clear on a Package whose cache held the bytes of an entry
C19_ClearedWithCache ==
    /\ out.op = "Clear"
    /\ CacheKeys(m_cache) # {}
    /\ GetCacheSize > 0
    /\ GetFileCount = 0

\* C20: every Save that fails returns a result of kind IOError, whichever
\* step of it failed.
C20_SaveFailsWithIOError ==
    (out.op = "Save" /\ ~out.ok) => out.error = "IOError"


(***************************************************************************)
(* Batches and their progress callbacks: AddMultiple and Save              *)
(***************************************************************************)
BatchOps == 4
BatchLen == 3

BatchConfigs == {DefaultConfig, Secure(<<107>>)}

\* the (name, data) pairs of the lists handed to AddMultiple
BatchItems == {<<NameA, ConcData[NameA]>>, <<NameB, ConcData[NameB]>>, <<<<>>, ConcData[NameB]>>}

BatchFiles == UNION {[1..n -> BatchItems] : n \in 0..BatchLen}

\* a loop that goes on after an item failed and reports the failure at the end
RECURSIVE AddAllSkipping(_, _, _, _)
AddAllSkipping(files, i, entries, history) ==
    IF i > Len(files)
    THEN [result |-> Success, entries |-> entries, added |-> history, calls |-> <<>>]
    ELSE LET name == files[i][1]
             data == files[i][2]
             called == Progress(i - 1, Len(files), name)
             bad == name = <<>> \/ Len(data) = 0
             rest == AddAllSkipping(files, i + 1,
                        IF bad THEN entries ELSE Put(entries, name, AddedEntry(name, data)),
                        IF bad THEN history
                        ELSE [history EXCEPT ![name] =
                                 [count |-> IF @.count < 2 THEN @.count + 1 ELSE 2,
                                  last |-> data]])
         IN  [rest EXCEPT !.calls = <<called, Processed(i - 1, name, ~bad)>> \o @,
                          !.result = IF bad THEN Failure("InvalidParameter") ELSE @]

\* the loop of AddMultiple over files[i..]: [result, entries, added, calls]
RECURSIVE AddAll(_, _, _, _)
AddAll(files, i, entries, history) ==
    IF i > Len(files)
    THEN [result |-> Success, entries |-> entries, added |-> history, calls |-> <<>>]
    ELSE LET name == files[i][1]
             data == files[i][2]
             called == Progress(i - 1, Len(files), name)
         IN  IF name = <<>> \/ Len(data) = 0
             THEN [result |-> Failure("InvalidParameter"), entries |-> entries,
                   added |-> history,
                   calls |-> <<called, Processed(i - 1, name, FALSE)>>]
             ELSE LET rest == AddAll(files, i + 1,
                                     Put(entries, name, AddedEntry(name, data)),
                                     [history EXCEPT ![name] =
                                         [count |-> IF @.count < 2 THEN @.count + 1 ELSE 2,
                                          last |-> data]])
                  IN  [rest EXCEPT !.calls =
                          <<called, Processed(i - 1, name, TRUE)>> \o @]

\* Package::Impl::AddMultiple
AddMultiple(files) ==
    /\ ops < MaxOps
    /\ \E all \in {AddAll(files, 1, m_entries, added)} :
           /\ m_entries' = all.entries
           /\ added' = all.added
           /\ calls' = [over |-> [i \in 1..Len(files) |-> files[i][1]],
                        events |-> all.calls]
           /\ out' = Out("AddMultiple", <<>>, all.result.success, <<>>, all.result.error,
                         "NotRun")
    /\ ops' = ops + 1
    /\ fresh' = FALSE
    /\ UNCHANGED <<pc, th, cx>>
    /\ UNCHANGED <<m_config, m_filepath, m_reader, m_pos, m_cipher, m_cache, m_last_error,
                   disk, made>>

BatchInit ==
    /\ \E cfg \in BatchConfigs : New(cfg)
    /\ out = Out("Construct", <<>>, TRUE, <<>>, "None", "NotRun")
    /\ ops = MaxOps - BatchOps
    /\ made = [p \in Paths |-> NothingMade]
    /\ fresh = FALSE
    /\ added = NothingAdded
    /\ m_pos = 0
    /\ pc = [t \in Threads |-> "idle"]
    /\ th = [t \in Threads |-> IdleThread]
    /\ cx = NoCipherRun
    /\ calls = NoBatch

BatchNext ==
    \/ \E files \in BatchFiles : AddMultiple(files)
    \/ \E n \in DOMAIN m_entries : Get(n)
    \/ \E p \in Paths, o \in Orders(DOMAIN m_entries) : Save(p, o)
    \/ \E p \in Paths, j \in Junk : Load(p, j)

SpecBatch == BatchInit /\ [][BatchNext]_vars

\* `batch` went through the first k of its names: for each, in order, one
\* callback with its index from 0, the total and the name, and after the
\* callback the work on the item
BatchOf(batch, k) ==
    /\ Len(batch.events) = 2 * k
    /\ \A i \in 1..k :
          /\ batch.events[2 * i - 1] =
                [event |-> "callback", current |-> i - 1,
                 total |-> Len(batch.over), filename |-> batch.over[i]]
          /\ batch.events[2 * i].event = "item"
          /\ batch.events[2 * i].current = i - 1

\* the items a batch went through
Went(batch) == Len(batch.events) \div 2

\* C21 as stated: for AddMultiple over n items and for Save over n entries
\* the callback is invoked exactly once per item, with indices 0, ..., n-1 in
\* increasing order and total n, each invocation before its item is processed
C21_OncePerItem ==
    out.op \in {"AddMultiple", "Save"} => BatchOf(calls, Len(calls.over))

\* C21 amended: a batch over n items invokes the callback for the items
\* 0, ..., k-1 in increasing order, once each, with total n and before the
\* item is processed, where k = n when the batch succeeds and otherwise the
\* item k-1 is the one that failed, and no later item is called or processed
C21_CallbacksUpToFailure ==
    out.op \in {"AddMultiple", "Save"} =>
        /\ Went(calls) <= Len(calls.over)
        /\ BatchOf(calls, Went(calls))
        /\ \A i \in 1..Went(calls) :
              calls.events[2 * i].ok = (i < Went(calls) \/ out.ok)
        /\ out.ok => Went(calls) = Len(calls.over)
        /\ ~out.ok => Went(calls) >= 1

\* an AddMultiple over three items that failed at the second
C21_BatchStoppedEarly ==
    /\ out.op = "AddMultiple"
    /\ ~out.ok
    /\ Len(calls.over) = 3
    /\ Went(calls) = 2
    /\ calls.events[2].ok
    /\ ~calls.events[4].ok

(***************************************************************************)
(* The order of the steps between Add, the file and Get, under Spec        *)
(***************************************************************************)

\* the bytes of the file that the directory record of `entry` points to
Payload(bytes, entry) ==
    SubSeq(bytes, ToNat(entry.offset) + 1,
           ToNat(entry.offset) + ToNat(entry.compressed_size))

\* C22: the crc32 of an entry is the CRC-32 of the plaintext given to Add;
\* Save writes for every entry the compression of its bytes, encrypted first
\* when the entry is flagged is_encrypted; and the verification of a Get
\* compares the CRC-32 of the payload decompressed and then, for an entry
\* flagged is_encrypted, decrypted.
C22_PipelineOrder ==
    [][/\ (out'.op = "Add" /\ out'.ok /\ ops' = ops + 1)
            => m_entries'[out'.name].crc32 = CalculateCRC32(out'.value)
       /\ (out'.op = "Save" /\ out'.ok /\ ops' = ops + 1)
            => \A p \in Paths, n \in DOMAIN m_entries :
                  LET e == m_entries'[n]
                  IN  Payload(disk'[p].bytes, e)
                        = Compress(IF e.is_encrypted
                                   THEN Encrypt(NewCipher(m_config.encryption_key), e.data)
                                   ELSE e.data,
                                   m_config.compression).output
       /\ (/\ out'.op = "Get" /\ ops' = ops + 1
           /\ m_config.verify_checksums
           /\ out'.pipeline \in {"None", "ChecksumMismatch"})
            => LET e == m_entries[out'.name]
                   dec == Decompress(Payload(disk[m_reader.path].bytes, e),
                                     ToNat(e.uncompressed_size))
                   plain == IF e.is_encrypted
                            THEN Decrypt(NewCipher(m_config.encryption_key), dec.output)
                            ELSE dec.output
               IN  /\ out'.ok <=> SecureCompare(CalculateCRC32(plain), e.crc32)
                   /\ out'.ok => out'.value = plain]_vars

(***************************************************************************)
(* A loaded package saved under another path                               *)
(***************************************************************************)
ResaveOps == 3

PathQ == "q.pak"
ResavePaths == {PathP, PathQ}

ResaveConfigs == {DefaultConfig, Secure(<<107>>), FastLoad}

\* a Package that loaded from p.pak the file that a Package of the same
\* configuration saved with ConcData; there is no q.pak yet
ResaveInit ==
    /\ \E cfg \in ResaveConfigs :
         /\ m_config = cfg
         /\ m_cipher = CipherFor(cfg)
         /\ m_cache = NewCache(cfg.max_cache_size)
    /\ m_last_error = "None"
    /\ \E order \in Orders(Names) :
        \E entries \in {[n \in Names |-> AddedEntry(n, ConcData[n])]} :
        \E pay \in {Written(order, entries)} :
        \E parsed \in {Parsed(pay.bytes, CHOOSE j \in Junk : TRUE)} :
             /\ disk = [p \in ResavePaths |->
                          IF p = PathP THEN FileOf(pay.bytes) ELSE NoFile]
             /\ made = [p \in ResavePaths |->
                          IF p = PathP THEN Saved(pay, entries) ELSE NothingMade]
             /\ m_entries = parsed.dir.entries
             /\ m_reader = [open |-> TRUE, path |-> PathP, fail |-> parsed.dir.stream.fail]
             /\ m_pos = parsed.dir.stream.pos
    /\ m_filepath = PathP
    /\ out = Out("Load", <<>>, TRUE, <<>>, "None", "NotRun")
    /\ ops = MaxOps - ResaveOps
    /\ fresh = TRUE
    /\ added = NothingAdded
    /\ pc = [t \in Threads |-> "idle"]
    /\ th = [t \in Threads |-> IdleThread]
    /\ cx = NoCipherRun
    /\ calls = NoBatch

ResaveNext ==
    \/ \E cfg \in ResaveConfigs : Construct(cfg)
    \/ \E n \in DOMAIN m_entries : Remove(n)
    \/ \E n \in DOMAIN m_entries : Get(n)
    \/ \E o \in Orders(DOMAIN m_entries) : Save(PathQ, o)
    \/ \E p \in ResavePaths, j \in Junk : Load(p, j)
    \/ \E sn \in DOMAIN made[PathP].region :
          \E i \in 1..Len(disk[PathP].bytes), m \in FlipMasks : Tamper(PathP, sn, i, m)

SpecResave == ResaveInit /\ [][ResaveNext]_vars

\* the Package holds what Load read from p.pak, less what Remove took out,
\* and no Get was made: no entry has its bytes and the cache is empty
NoGetSinceLoad ==
    /\ m_filepath = PathP
    /\ out.op \in {"Load", "Remove"}
    /\ CacheKeys(m_cache) = {}
    /\ \A n \in DOMAIN m_entries : ~m_entries[n].is_loaded

\* C23: after a successful Load(p), Removes and no Get, Save(q) to another
\* path succeeds, and the file at q holds for every remaining entry a record
\* under its name whose payload decodes to the entry's original bytes.
C23_ModifyAndResave ==
    [][\A o \in Orders(DOMAIN m_entries) :
          (NoGetSinceLoad /\ out'.op = "Save" /\ Save(PathQ, o)) =>
             /\ out'.ok
             /\ \A j \in Junk :
                  LET parsed == Parsed(disk'[PathQ].bytes, j)
                  IN  /\ parsed.sig.ok /\ parsed.sig.value = SIGNATURE
                      /\ \A n \in DOMAIN m_entries :
                            /\ n \in DOMAIN parsed.dir.entries
                            /\ LET e == parsed.dir.entries[n]
                                   d == Decode(e, Payload(disk'[PathQ].bytes, e))
                               IN  /\ d.result.success
                                   /\ d.decoded \in made[PathP].stored[n]]_vars

(***************************************************************************)
(* The LRUCache on its own, with the weights Package::Get gives to Put     *)
(***************************************************************************)
LruOps == 5
LruCapacity == 3
LruLen == 4

LruKeys == {NameA, NameB, <<99>>}
\* one value of each length; a value longer than the capacity is among them
LruValues == {[i \in 1..n |-> 64 + i] : n \in 1..LruLen}

LruInit ==
    /\ New([DefaultConfig EXCEPT !.max_cache_size = LruCapacity])
    /\ out = Out("LRUCache", <<>>, TRUE, <<>>, "None", "NotRun")
    /\ ops = 0
    /\ made = [p \in Paths |-> NothingMade]
    /\ fresh = FALSE
    /\ added = NothingAdded
    /\ m_pos = 0
    /\ pc = [t \in Threads |-> "idle"]
    /\ th = [t \in Threads |-> IdleThread]
    /\ cx = NoCipherRun
    /\ calls = NoBatch

\* what a step on the cache alone leaves as it is
beside == <<m_config, m_entries, m_filepath, m_reader, m_cipher, m_last_error, disk,
            made, fresh, added, pc, th, m_pos, cx, calls>>

\* m_cache.Get(key)
CacheGet(key) ==
    /\ ops < LruOps
    /\ \E got \in {LruGet(m_cache, key)} :
          /\ m_cache' = got.cache
          /\ out' = Out("LRUCache::Get", key, got.hit, got.value, "None", "NotRun")
    /\ ops' = ops + 1
    /\ UNCHANGED beside

\* m_cache.Put(key, value, value.size())
CachePut(key, value) ==
    /\ ops < LruOps
    /\ m_cache' = LruPut(m_cache, key, value, Len(value))
    /\ out' = Out("LRUCache::Put", key, TRUE, value, "None", "NotRun")
    /\ ops' = ops + 1
    /\ UNCHANGED beside

\* m_cache.Clear()
CacheClear ==
    /\ ops < LruOps
    /\ m_cache' = LruClear(m_cache)
    /\ out' = Out("LRUCache::Clear", <<>>, TRUE, <<>>, "None", "NotRun")
    /\ ops' = ops + 1
    /\ UNCHANGED beside

LruNext ==
    \/ \E k \in LruKeys : CacheGet(k)
    \/ \E k \in LruKeys, v \in LruValues : CachePut(k, v)
    \/ CacheClear

SpecLru == LruInit /\ [][LruNext]_vars

\* the sum of the weights of the records in items
RECURSIVE Weight(_)
Weight(items) ==
    IF items = <<>> THEN 0 ELSE Len(items[1].value) + Weight(Tail(items))

\* C24: in every state of the cache Size() is the sum of the weights of the
\* records that are resident.
C24_SizeIsResidentWeight == LruSize(m_cache) = Weight(m_cache.items)

\* the records that stay when the least recently used ones are dropped, one
\* at a time, until the resident weight plus w fits the capacity
RECURSIVE DropUntilFits(_, _, _)
DropUntilFits(items, w, capacity) ==
    IF Weight(items) + w > capacity /\ items # <<>>
    THEN DropUntilFits(SubSeq(items, 1, Len(items) - 1), w, capacity)
    ELSE items

\* C25: a Get that hits moves its record to the front; a Put of weight
\* w <= capacity leaves the new record at the front and behind it the other
\* records in their order, less the least recently used ones dropped until
\* the resident weight plus w fits the capacity.
C25_LruPolicy ==
    [][/\ (out'.op = "LRUCache::Get" /\ out'.ok)
            => LET i == CacheIndex(m_cache, out'.name)
               IN  m_cache'.items = <<m_cache.items[i]>> \o Without(m_cache.items, i)
       /\ (out'.op = "LRUCache::Put" /\ Len(out'.value) <= m_cache.capacity)
            => LET others == IF out'.name \in CacheKeys(m_cache)
                             THEN Without(m_cache.items, CacheIndex(m_cache, out'.name))
                             ELSE m_cache.items
               IN  m_cache'.items
                     = <<[key |-> out'.name, value |-> out'.value]>>
                         \o DropUntilFits(others, Len(out'.value), m_cache.capacity)]_vars

(***************************************************************************)
(* Get and the cache, with entries larger than the cache                   *)
(***************************************************************************)
CacheOps == 4
TinyCache == 1

Tiny == [DefaultConfig EXCEPT !.max_cache_size = TinyCache]
CacheConfigs == {Tiny, [Tiny EXCEPT !.lazy_load = FALSE]}

CacheInit ==
    /\ \E cfg \in CacheConfigs : New(cfg)
    /\ out = Out("Construct", <<>>, TRUE, <<>>, "None", "NotRun")
    /\ ops = MaxOps - CacheOps
    /\ made = [p \in Paths |-> NothingMade]
    /\ fresh = FALSE
    /\ added = NothingAdded
    /\ m_pos = 0
    /\ pc = [t \in Threads |-> "idle"]
    /\ th = [t \in Threads |-> IdleThread]
    /\ cx = NoCipherRun
    /\ calls = NoBatch

CacheNext ==
    \/ \E n \in Names, d \in Blobs : Add(n, d)
    \/ \E n \in Names : Get(n)
    \/ \E p \in Paths, o \in Orders(DOMAIN m_entries) : Save(p, o)
    \/ \E p \in Paths, j \in Junk : Load(p, j)
    \/ ClearCache

SpecCache == CacheInit /\ [][CacheNext]_vars

\* the step is a Get of an entry of the package whose pipeline did not fail
GetOfEntry ==
    /\ out'.op = "Get"
    /\ ops' = ops + 1
    /\ out'.name \in DOMAIN m_entries
    /\ out'.pipeline \in {"NotRun", "None"}

\* C26: after a Get of an entry whose decoded size is larger than
\* max_cache_size the name is not resident in the cache, and the Get returned
\* the bytes of the entry.
C26_OversizeNotCached ==
    [][(/\ GetOfEntry
        /\ ToNat(m_entries[out'.name].uncompressed_size) > m_config.max_cache_size)
          => /\ out'.name \notin CacheKeys(m_cache')
             /\ out'.ok
             /\ out'.value = m_entries'[out'.name].data]_vars

\* the step is a Get that succeeds without finding the name in the cache
GetMissed ==
    /\ out'.op = "Get"
    /\ ops' = ops + 1
    /\ out'.ok
    /\ out'.name \notin CacheKeys(m_cache)

\* C27 as stated: with lazy_load off a Get leaves the cache as it is, empty
\* and of size 0; with lazy_load on a successful Get that misses the cache
\* inserts the bytes it returns under the name, with their length as weight.
C27_GetInserts ==
    [][/\ (out'.op = "Get" /\ ops' = ops + 1 /\ ~m_config.lazy_load)
            => (m_cache' = m_cache /\ GetCacheSize' = 0 /\ CacheKeys(m_cache') = {})
       /\ (GetMissed /\ m_config.lazy_load)
            => /\ m_cache'.items # <<>>
               /\ m_cache'.items[1] = [key |-> out'.name, value |-> out'.value]
               /\ GetCacheSize' = GetCacheSize + Len(out'.value)]_vars

\* C27 amended: the same, except that bytes longer than max_cache_size are
\* not inserted: after such a Get the name is not resident and the size of
\* the cache is what it was.
C27_GetInsertsWhatFits ==
    [][/\ (out'.op = "Get" /\ ops' = ops + 1 /\ ~m_config.lazy_load)
            => (m_cache' = m_cache /\ GetCacheSize' = 0 /\ CacheKeys(m_cache') = {})
       /\ (GetMissed /\ m_config.lazy_load)
            => IF Len(out'.value) <= m_config.max_cache_size
               THEN /\ m_cache'.items # <<>>
                    /\ m_cache'.items[1] = [key |-> out'.name, value |-> out'.value]
                    /\ GetCacheSize' = GetCacheSize + Len(out'.value)
               ELSE /\ out'.name \notin CacheKeys(m_cache')
                    /\ GetCacheSize' = GetCacheSize]_vars

\* a Get with lazy_load on decoded from the file more bytes than the cache
\* takes, and returned them
C27_OversizeReturned ==
    /\ out.op = "Get" /\ out.ok /\ out.pipeline = "None"
    /\ m_config.lazy_load
    /\ Len(out.value) > m_config.max_cache_size
    /\ out.name \notin CacheKeys(m_cache)

\* C28: a Get whose pipeline fails leaves the cache and the entries as they
\* were; and when a Get gives an entry read from the file its bytes
\* (is_loaded, data) or makes its name resident in the cache, the payload in
\* the file decompressed without error, the bytes are what the decode of the
\* payload gave, with verify_checksums on their CRC-32 is the crc32 of the
\* directory record, and the cache holds the same bytes.
C28_ResidentOnlyWhenDecoded ==
    [][/\ (/\ out'.op = "Get" /\ ops' = ops + 1
           /\ out'.pipeline \notin {"NotRun", "None"})
            => (~out'.ok /\ m_cache' = m_cache /\ m_entries' = m_entries)
       /\ (/\ out'.op = "Get" /\ ops' = ops + 1
           /\ out'.name \in DOMAIN m_entries
           /\ ~m_entries[out'.name].is_loaded
           /\ \/ m_entries'[out'.name] # m_entries[out'.name]
              \/ CacheKeys(m_cache') # CacheKeys(m_cache))
            => LET e == m_entries[out'.name]
                   after == m_entries'[out'.name]
                   dec == Decompress(Payload(disk[m_reader.path].bytes, e),
                                     ToNat(e.uncompressed_size))
               IN  /\ dec.result.success
                   /\ after.is_loaded
                   /\ after.data \in {dec.output,
                                      Decrypt(NewCipher(m_config.encryption_key),
                                              dec.output)}
                   /\ m_config.verify_checksums
                        => SecureCompare(CalculateCRC32(after.data), e.crc32)
                   /\ \A i \in 1..Len(m_cache'.items) :
                         m_cache'.items[i].key = out'.name
                            => m_cache'.items[i].value = after.data]_vars

\* a Get whose decode failed at the checksum, with no entry given its bytes
\* and nothing in the cache
C28_MismatchLeftNothing ==
    /\ out.op = "Get" /\ ~out.ok /\ out.pipeline = "ChecksumMismatch"
    /\ CacheKeys(m_cache) = {}
    /\ DOMAIN m_entries # {}
    /\ \A n \in DOMAIN m_entries : ~m_entries[n].is_loaded /\ m_entries[n].data = <<>>

(***************************************************************************)
(* The layout of the file that Save writes                                 *)
(***************************************************************************)
HeaderLen == 20

\* where the records of a directory point to, in the order of the records:
\* a sequence of [offset, compressed_size]
RECURSIVE DirectoryRuns(_, _, _)
DirectoryRuns(bytes, st, left) ==
    LET l == StreamRead(bytes, st, 2)
        length == l.got[1] + 256 * l.got[2]
        rest == StreamRead(bytes, l.stream, length + 17)
    IN  IF left = 0 \/ ~l.ok \/ ~rest.ok THEN <<>>
        ELSE <<[offset |-> ToNat(Word32(SubSeq(rest.got, length + 1, length + 4))),
                compressed_size |-> ToNat(Word32(SubSeq(rest.got, length + 5, length + 8)))]>>
               \o DirectoryRuns(bytes, rest.stream, left - 1)

\* C29: the file of a successful Save is well-formed: the directory has as
\* many records as the header counts; every record has offset >= 20 and
\* offset + compressed_size <= directory_offset; the payloads lie one after
\* the other from position 20 in the order of the records, without gap or
\* overlap; directory_offset is the position after the last payload, and 20
\* for a package without entries.
C29_SavedFileWellFormed ==
    \A p \in Paths :
        (out.op = "Save" /\ out.ok) =>
            LET bytes == disk[p].bytes
                h == HeaderOf(bytes)
                runs == DirectoryRuns(bytes, Stream(h.dir_off, FALSE), h.count)
            IN  /\ Len(bytes) >= HeaderLen
                /\ h.count = GetFileCount
                /\ Len(runs) = h.count
                /\ \A i \in 1..Len(runs) :
                      /\ runs[i].offset >= HeaderLen
                      /\ runs[i].offset + runs[i].compressed_size <= h.dir_off
                      /\ runs[i].offset
                           = IF i = 1 THEN HeaderLen
                             ELSE runs[i - 1].offset + runs[i - 1].compressed_size
                /\ h.dir_off
                     = IF h.count = 0 THEN HeaderLen
                       ELSE runs[h.count].offset + runs[h.count].compressed_size

\* a Save wrote a file with two entries
C29_TwoPayloadsSaved ==
    /\ out.op = "Save" /\ out.ok
    /\ GetFileCount = 2
    /\ HeaderOf(disk[PathP].bytes).count = 2

(***************************************************************************)
(* The configuration after Load                                            *)
(***************************************************************************)
FlagsPos == 12

\* bit k of the flags field in the header of a file
HeaderFlag(bytes, k) == (bytes[FlagsPos + 1] \div Pow2(k)) % 2 = 1

\* C30: after a successful Load of a file that has its header, the
\* configuration has encryption,
\* obfuscate_filenames and verify_checksums as the Encrypted (bit 1),
\* ObfuscatedNames (bit 2) and ChecksumVerified (bit 3) flags of the header
\* say, and compression, encryption_key, lazy_load and max_cache_size as they
\* were.
C30_LoadAdoptsFlags ==
    [][(out'.op = "Load" /\ out'.ok /\ ops' = ops + 1) =>
          LET bytes == disk[m_filepath'].bytes
          IN  /\ m_config'.encryption = "XOR" <=> HeaderFlag(bytes, 1)
              /\ m_config'.encryption = "None" <=> ~HeaderFlag(bytes, 1)
              /\ m_config'.obfuscate_filenames = HeaderFlag(bytes, 2)
              /\ m_config'.verify_checksums = HeaderFlag(bytes, 3)
              /\ m_config'.compression = m_config.compression
              /\ m_config'.encryption_key = m_config.encryption_key
              /\ m_config'.lazy_load = m_config.lazy_load
              /\ m_config'.max_cache_size = m_config.max_cache_size]_vars

\* a Package constructed without encryption and without a key loaded a file
\* saved with Secure(k): its configuration now says XOR, with the empty key
C30_FlagsOverCaller ==
    /\ out.op = "Load" /\ out.ok
    /\ m_config.encryption = "XOR"
    /\ m_config.obfuscate_filenames
    /\ m_config.encryption_key = <<>>
    /\ HeaderFlag(disk[m_filepath].bytes, 1)

(***************************************************************************)
(* The cache and the entry map, under Spec                                 *)
(***************************************************************************)

\* C31: cache coherence. Every record resident in the cache under a key has
\* an entry under that key in the entry map, and holds the bytes of that
\* entry: no record outlives its entry being replaced by Add, erased by
\* Remove, dropped by Clear or replaced by Load.
C31_CacheCoherent ==
    \A i \in 1..Len(m_cache.items) :
        LET n == m_cache.items[i].key
        IN  /\ n \in DOMAIN m_entries
            /\ m_entries[n].is_loaded
            /\ m_cache.items[i].value = m_entries[n].data

(***************************************************************************)
(* What is resident in the LRUCache, under SpecLru                         *)
(***************************************************************************)

\* C32: in every state of the cache the byte lengths of the resident records
\* sum to at most the capacity, whatever Size() reports.
C32_ResidentFitsCapacity == Weight(m_cache.items) <= m_cache.capacity

\* Size() reports more than the capacity while a record is resident, put
\* there after the records before it had filled the capacity
C32_SizeAboveCapacity ==
    /\ LruSize(m_cache) > m_cache.capacity
    /\ m_cache.items # <<>>
    /\ out.op = "LRUCache::Put"

(***************************************************************************)
(* AddMultiple when an item fails, under SpecBatch                         *)
(***************************************************************************)

\* the list handed to the last batch: the items of BatchItems have different
\* names, so the names of the list tell the items
FilesOf(batch) ==
    [i \in 1..Len(batch.over) |-> CHOOSE f \in BatchItems : f[1] = batch.over[i]]

\* the place in `files` of the first item that Add refuses; 0 when there is none
FirstRefused(files) ==
    IF \A i \in 1..Len(files) : files[i][1] # <<>> /\ Len(files[i][2]) > 0 THEN 0
    ELSE CHOOSE i \in 1..Len(files) :
            /\ files[i][1] = <<>> \/ Len(files[i][2]) = 0
            /\ \A j \in 1..(i - 1) : files[j][1] # <<>> /\ Len(files[j][2]) > 0

\* C33: AddMultiple is not atomic. When the Add of an item fails,
\* AddMultiple returns that failure; the items before it are in the package
\* with their bytes, each name with the bytes of its last item; every other
\* entry is as it was, so no item after the failing one is added and nothing
\* is rolled back; and the callback was called for the items up to the
\* failing one and for none after it.
C33_AddMultipleNotAtomic ==
    [][(out'.op = "AddMultiple" /\ ops' = ops + 1) =>
          LET files == FilesOf(calls')
              f == FirstRefused(files)
              before == {files[j][1] : j \in 1..(f - 1)}
          IN  /\ out'.ok <=> f = 0
              /\ f # 0 =>
                   /\ out'.error = "InvalidParameter"
                   /\ DOMAIN m_entries' = DOMAIN m_entries \cup before
                   /\ \A j \in 1..(f - 1) :
                         (\A l \in (j + 1)..(f - 1) : files[l][1] # files[j][1])
                            => /\ m_entries'[files[j][1]].data = files[j][2]
                               /\ m_entries'[files[j][1]].is_loaded
                   /\ \A n \in DOMAIN m_entries \ before : m_entries'[n] = m_entries[n]
                   /\ Len(calls'.events) = 2 * f
                   /\ \A e \in 1..Len(calls'.events) : calls'.events[e].current < f]_vars

\* an AddMultiple over three items failed at the last: the two before it are
\* in the package
C33_PartlyAdded ==
    /\ out.op = "AddMultiple" /\ ~out.ok
    /\ Len(calls.over) = 3
    /\ FirstRefused(FilesOf(calls)) = 3
    /\ {calls.over[1], calls.over[2]} = Names
    /\ DOMAIN m_entries = Names

(***************************************************************************)
(* What Load registers, under SpecFiles                                    *)
(***************************************************************************)

\* the records of a directory, in their order, as far as the file has them
\* whole: [name, offset, compressed_size, uncompressed_size, crc32, flag]
RECURSIVE DirectoryRecords(_, _, _)
DirectoryRecords(bytes, st, left) ==
    LET l == StreamRead(bytes, st, 2)
        length == l.got[1] + 256 * l.got[2]
        rest == StreamRead(bytes, l.stream, length + 17)
    IN  IF left = 0 \/ ~l.ok \/ ~rest.ok THEN <<>>
        ELSE <<[name |-> SubSeq(rest.got, 1, length),
                offset |-> Word32(SubSeq(rest.got, length + 1, length + 4)),
                compressed_size |-> Word32(SubSeq(rest.got, length + 5, length + 8)),
                uncompressed_size |-> Word32(SubSeq(rest.got, length + 9, length + 12)),
                crc32 |-> Word32(SubSeq(rest.got, length + 13, length + 16)),
                flag |-> rest.got[length + 17] # 0]>>
               \o DirectoryRecords(bytes, rest.stream, left - 1)

\* the entry carries what the record says
Carries(entry, record) ==
    /\ entry.name = record.name
    /\ entry.stored_name = record.name
    /\ entry.offset = record.offset
    /\ entry.compressed_size = record.compressed_size
    /\ entry.uncompressed_size = record.uncompressed_size
    /\ entry.crc32 = record.crc32
    /\ entry.is_encrypted = record.flag

\* C34: after a Load that returned success the file has a header,
\* GetFileCount() is the entry_count of the header, the directory has that
\* many records, and every registered entry carries the name, offset, sizes,
\* crc32 and flag of exactly one record.
C34_LoadRegistersDirectory ==
    (out.op = "Load" /\ out.ok) =>
        LET bytes == disk[m_filepath].bytes
        IN  /\ Len(bytes) >= HeaderLen
            /\ LET h == HeaderOf(bytes)
                   records == DirectoryRecords(bytes, Stream(h.dir_off, FALSE), h.count)
               IN  /\ GetFileCount = h.count
                   /\ Len(records) = h.count
                   /\ \A n \in DOMAIN m_entries :
                         Cardinality({i \in 1..Len(records) :
                                         Carries(m_entries[n], records[i])}) = 1

(***************************************************************************)
(* What Get would return before and after a Save, under SpecReopen         *)
(***************************************************************************)

\* what Get(name) returns when called in this state: [ok, value]
WouldGet(name) ==
    LET cached == LruGet(m_cache, name)
    IN  IF cached.hit THEN [ok |-> TRUE, value |-> cached.value]
        ELSE IF name \notin DOMAIN m_entries THEN [ok |-> FALSE, value |-> <<>>]
        ELSE IF m_entries[name].is_loaded
        THEN [ok |-> TRUE, value |-> m_entries[name].data]
        ELSE LET le == LoadEntry(m_entries[name])
             IN  IF le.result.success THEN [ok |-> TRUE, value |-> le.entry.data]
                 ELSE [ok |-> FALSE, value |-> <<>>]

\* C35: Save preserves retrievability. Every name for which Get would
\* return bytes just before a Save, to whatever path and whether the Save
\* succeeds or fails, gets the same bytes from Get after it; and the Save
\* changes no entry's name, data, crc32 or is_loaded.
C35_SavePreservesGet ==
    [][(out'.op = "Save" /\ ops' = ops + 1) =>
          /\ \A n \in DOMAIN m_entries \cup CacheKeys(m_cache) :
                WouldGet(n).ok => WouldGet(n)' = WouldGet(n)
          /\ DOMAIN m_entries' = DOMAIN m_entries
          /\ \A n \in DOMAIN m_entries :
                /\ m_entries'[n].name = m_entries[n].name
                /\ m_entries'[n].data = m_entries[n].data
                /\ m_entries'[n].crc32 = m_entries[n].crc32
                /\ m_entries'[n].is_loaded = m_entries[n].is_loaded]_vars

=============================================================================
